---- MODULE Spec2Model ----
(***************************************************************************)
(* The cache-augmented query layer of the property listing backend:        *)
(* CacheService over Redis, the listing / favorite / recommendation        *)
(* controllers over the MongoDB collections, and the invalidation each     *)
(* write issues.  One action is one HTTP request handled from its first    *)
(* statement to its response; every Redis and MongoDB call the handler     *)
(* makes is appended, in program order, to the request's operation log.    *)
(***************************************************************************)
EXTENDS Integers, Sequences, FiniteSets, TLC

(***************************************************************************)
(* Bounds of the model.                                                    *)
(***************************************************************************)
\* listings ever inserted in one behaviour (internal _id values 1..MaxDocs)
MaxDocs == 2
\* HTTP requests handled in one behaviour
MaxRequests == 3
\* HTTP requests handled in one behaviour in which the Redis transport may fail
MaxOutageRequests == 2
\* requests per behaviour of the search specification
MaxSearchRequests == 1
\* requests per behaviour of the sort-order specification
MaxSortRequests == 3
\* requests per behaviour of the specification with single failing Redis calls
MaxFlakyRequests == 2
\* requests per behaviour of the specification of the per-user entries
MaxUserKeyRequests == 3
\* CacheService calls per behaviour of the specification with a clock
MaxTtlCalls == 3
\* requests per behaviour of the specification of lookups racing with writes
MaxRaceRequests == 2
\* calls per behaviour of the specification of delByPattern racing with sets
MaxPatternCalls == 3
\* requests per behaviour of the specification of searches racing with writes
MaxSearchRaceRequests == 2
\* requests per behaviour of the specification of concurrent searches
MaxHerdRequests == 2
\* requests per behaviour of the specification of concurrent favorite adds
MaxFavoriteRequests == 2

(***************************************************************************)
(* Input domains.                                                          *)
(***************************************************************************)
\* registered users (the id carried by their JWT) and their unique emails
Users == {"u1", "u2"}
Email == [u \in Users |-> u \o "@mail"]
\* req.user when verification yielded no user
NoUser == "no-user"
\* public listing identifiers (propertyId)
PropIds == {"P1", "P2"}
Prices == {100, 200}
Types == {"Villa", "Flat"}
\* createdBy of a listing inserted without an owner
NoOwner == "null"

(***************************************************************************)
(* JSON values.  Every value that is serialised (into Redis or into a      *)
(* response) is tagged with its kind, so that values of different kinds    *)
(* can be compared.                                                        *)
(***************************************************************************)
J(kind, v) == [k |-> kind, v |-> v]
Null == J("null", <<>>)
Msg(text) == J("object", [message |-> text])

\* (variant) a truthiness test that takes an array for falsy
Truthy_objectsOnly(j) == j.k = "object"

\* (variant) a truthiness test that takes an empty array for falsy
Truthy_nonEmpty(j) == j.k = "object" \/ (j.k = "array" /\ Len(j.v) > 0)

\* JS truthiness of a parsed JSON value: objects and arrays (also empty
\* ones) are truthy; null, false, 0 and "" are falsy.
Truthy(j) == j.k \in {"object", "array"}

\* JSON.stringify / JSON.parse.  A Redis string is either the JSON text of a
\* value or text that is not JSON at all.
JSON_stringify(j) == [enc |-> "json", val |-> j]
NotJSON == [enc |-> "garbage", val |-> Null]
EmptyString == [enc |-> "empty", val |-> Null]
JSON_parses(str) == str.enc = "json"
JSON_parse(str) == str.val

(***************************************************************************)
(* Cache keys and invalidation patterns.  A key is the tuple of its        *)
(* ':'-separated parts; the glob 'tag:*' matches exactly the keys whose    *)
(* text starts with 'tag:', that is whose first part is tag.               *)
(***************************************************************************)
KEY_PROPERTY(id) == <<"property", id>>
KEY_PROPERTIES == <<"properties", "all">>
KEY_SEARCH(queryString) == <<"search", queryString>>
KEY_FILTERS == <<"filters", "all">>
KEY_USER_FAVORITES(userId) == <<"user", userId, "favorites">>
KEY_USER_RECOMMENDATIONS(userId) == <<"user", userId, "recommendations">>

\* (variant) a collection pattern that reaches the per-user entries
PATTERN_PROPERTIES_users == <<"user", "*">>
PATTERN_PROPERTIES == <<"properties", "*">>
\* (variant) a search pattern that reaches the filter options
PATTERN_SEARCH_filters == <<"filters", "*">>
PATTERN_SEARCH == <<"search", "*">>

\* (variant) a glob whose literal part is not compared: it matches every key
GlobMatch_any(pattern, key) == pattern[2] = "*"

GlobMatch(pattern, key) == pattern[2] = "*" /\ key[1] = pattern[1]

CACHE_TTL == 3600


(***************************************************************************)
(* State.                                                                  *)
(***************************************************************************)
VARIABLES
  props,     \* the Property collection: a set of documents
  nextOid,   \* the next internal _id the collection hands out
  users,     \* the User collection: user id -> document
  cache,     \* Redis: key -> [data: the stored string, ex: its TTL in seconds]
  last,      \* the request handled last: its inputs, operation log, response
  nreq,      \* number of requests handled so far
  origin,    \* history: _id -> the owner and propertyId a listing was created with
  fresh,     \* history: keys populated by a read miss, with no store write and
             \* no expiry of the key since
  probe,     \* history: progress of 'lookup of a missing id, then its
             \* creation, then a lookup', as consecutive requests
  age,       \* history: key -> seconds since the most recent SET of the key,
             \* for the keys in the cache and, capped at the TTL, for those
             \* the clock has expired
  inflight   \* the requests being handled concurrently: for each its inputs,
             \* the call it awaits next, its local variables and its
             \* operation log so far

vars == <<props, nextOid, users, cache, last, nreq, origin, fresh, probe, age, inflight>>

(***************************************************************************)
(* A handler runs on a "world": the stores as the request sees them, the   *)
(* inputs that decide what the stores answer during the request, and the   *)
(* log of the calls made so far.                                           *)
(*   fail  the Redis calls of this request, counted from 1, on which the   *)
(*         transport fails                                                 *)
(*   dbOk  whether MongoDB accepts this request's write                    *)
(*   tb    the order in which MongoDB returns documents that its sort does *)
(*         not order (a permutation of the stored _ids)                    *)
(***************************************************************************)
World(fail, dbOk, tb) ==
  [props |-> props, nextOid |-> nextOid, users |-> users, cache |-> cache,
   fail |-> fail, dbOk |-> dbOk, tb |-> tb, ops |-> <<>>]

Op(sys, op, arg, keys, ok) ==
  [sys |-> sys, op |-> op, arg |-> arg, keys |-> keys, ok |-> ok]
Log(w, o) == [w EXCEPT !.ops = Append(@, o)]

\* whether the transport carries the next Redis call of the request
RedisCalls(ops) == Cardinality({i \in 1..Len(ops) : ops[i].sys = "redis"})
Up(w) == (RedisCalls(w.ops) + 1) \notin w.fail

(***************************************************************************)
(* CacheService (src/services/cacheService.ts).  Each method returns the   *)
(* world after the call, whether it raised to its caller, and for get the  *)
(* value returned.                                                         *)
(***************************************************************************)
\* redisClient.get / set / del / keys: reject when the transport is down
CacheService_get_unguarded(w, key) ==
  IF ~Up(w)
    THEN [w |-> Log(w, Op("redis", "GET", key, {}, FALSE)), raised |-> TRUE, val |-> Null]
  ELSE IF key \notin DOMAIN w.cache
    THEN [w |-> Log(w, Op("redis", "GET", key, {}, TRUE)), raised |-> FALSE, val |-> Null]
  ELSE LET data == w.cache[key].data
           w1 == Log(w, Op("redis", "GET", key, {key}, TRUE))
       IN IF data = EmptyString THEN [w |-> w1, raised |-> FALSE, val |-> Null]
          ELSE IF JSON_parses(data)
            THEN [w |-> w1, raised |-> FALSE, val |-> JSON_parse(data)]
          ELSE [w |-> w1, raised |-> TRUE, val |-> Null]

\* (variant) get without its try/catch: the failure reaches the caller
CacheService_get_rethrows(w, key) == CacheService_get_unguarded(w, key)

CacheService_get(w, key) ==
  LET r == CacheService_get_unguarded(w, key)
  IN IF r.raised THEN [w |-> r.w, raised |-> FALSE, val |-> Null]   \* catch: return null
     ELSE r

\* (variant) set without its try/catch: a transport failure reaches the caller
CacheService_set_unguarded(w, key, value) ==
  IF ~Up(w)
    THEN [w |-> Log(w, Op("redis", "SET", key, {}, FALSE)), raised |-> TRUE]
  ELSE LET entry == [data |-> JSON_stringify(value), ex |-> CACHE_TTL]
           c1 == [k \in DOMAIN w.cache \cup {key} |->
                    IF k = key THEN entry ELSE w.cache[k]]
       IN [w |-> Log([w EXCEPT !.cache = c1], Op("redis", "SET", key, {key}, TRUE)),
           raised |-> FALSE]

\* (variant) a set that leaves the time to live of an existing entry as it is
CacheService_set_keepsTtl(w, key, value) ==
  IF ~Up(w)
    THEN [w |-> Log(w, Op("redis", "SET", key, {}, FALSE)), raised |-> FALSE]
  ELSE LET entry == [data |-> JSON_stringify(value),
                     ex |-> IF key \in DOMAIN w.cache THEN w.cache[key].ex ELSE CACHE_TTL]
           c1 == [k \in DOMAIN w.cache \cup {key} |->
                    IF k = key THEN entry ELSE w.cache[k]]
       IN [w |-> Log([w EXCEPT !.cache = c1], Op("redis", "SET", key, {key}, TRUE)),
           raised |-> FALSE]

CacheService_set(w, key, value) ==
  IF ~Up(w)
    THEN [w |-> Log(w, Op("redis", "SET", key, {}, FALSE)), raised |-> FALSE]
  ELSE LET entry == [data |-> JSON_stringify(value), ex |-> CACHE_TTL]
           c1 == [k \in DOMAIN w.cache \cup {key} |->
                    IF k = key THEN entry ELSE w.cache[k]]
       IN [w |-> Log([w EXCEPT !.cache = c1], Op("redis", "SET", key, {key}, TRUE)),
           raised |-> FALSE]

Without(c, keys) == [k \in DOMAIN c \ keys |-> c[k]]

\* (variant) del that reports success and removes nothing
CacheService_del_noop(w, key) ==
  [w |-> Log(w, Op("redis", "DEL", key, {}, Up(w))), raised |-> FALSE]

CacheService_del(w, key) ==
  IF ~Up(w)
    THEN [w |-> Log(w, Op("redis", "DEL", key, {}, FALSE)), raised |-> FALSE]
  ELSE LET gone == {key} \cap DOMAIN w.cache
       IN [w |-> Log([w EXCEPT !.cache = Without(@, gone)],
                     Op("redis", "DEL", key, gone, TRUE)),
           raised |-> FALSE]

\* (variant) delByPattern without its try/catch
CacheService_delByPattern_unguarded(w, pattern) ==
  IF ~Up(w)
    THEN [w |-> Log(w, Op("redis", "KEYS", pattern, {}, FALSE)), raised |-> TRUE]
  ELSE LET keys == {k \in DOMAIN w.cache : GlobMatch(pattern, k)}
           w1 == Log(w, Op("redis", "KEYS", pattern, keys, TRUE))
       IN IF Cardinality(keys) > 0
            THEN IF ~Up(w1)
                   THEN [w |-> Log(w1, Op("redis", "DEL", pattern, {}, FALSE)),
                         raised |-> TRUE]
                   ELSE [w |-> Log([w1 EXCEPT !.cache = Without(@, keys)],
                                   Op("redis", "DEL", pattern, keys, TRUE)),
                         raised |-> FALSE]
            ELSE [w |-> w1, raised |-> FALSE]

CacheService_delByPattern(w, pattern) ==
  IF ~Up(w)
    THEN [w |-> Log(w, Op("redis", "KEYS", pattern, {}, FALSE)), raised |-> FALSE]
  ELSE LET keys == {k \in DOMAIN w.cache : GlobMatch(pattern, k)}
           w1 == Log(w, Op("redis", "KEYS", pattern, keys, TRUE))
       IN IF Cardinality(keys) > 0
            THEN IF ~Up(w1)
                   THEN [w |-> Log(w1, Op("redis", "DEL", pattern, {}, FALSE)),
                         raised |-> FALSE]
                   ELSE [w |-> Log([w1 EXCEPT !.cache = Without(@, keys)],
                                   Op("redis", "DEL", pattern, keys, TRUE)),
                         raised |-> FALSE]
            ELSE [w |-> w1, raised |-> FALSE]

(***************************************************************************)
(* The Property collection (src/models/Property.ts) as the controllers use *)
(* it.  A document is [oid, propertyId, createdBy, price, type, amenities,  *)
(* tags, isVerified]: oid is the internal _id, propertyId carries a unique *)
(* index, amenities and tags are arrays of strings.                        *)
(***************************************************************************)
Fields ==
  {"oid", "propertyId", "createdBy", "price", "type", "amenities", "tags", "isVerified"}
NoDoc ==
  [oid |-> 0, propertyId |-> "", createdBy |-> NoOwner, price |-> 0, type |-> "",
   amenities |-> <<>>, tags |-> <<>>, isVerified |-> FALSE]

Oids(docs) == {d.oid : d \in docs}
TieBreaks(docs) ==
  {tb \in [1..Cardinality(docs) -> Oids(docs)] :
     \A i, j \in 1..Cardinality(docs) : tb[i] = tb[j] => i = j}
TbRank(tb, oid) == CHOOSE i \in 1..Len(tb) : tb[i] = oid

\* the documents of a set by increasing rank (rank: document -> integer,
\* distinct documents having distinct ranks)
InOrder(docs, rank) ==
  [i \in 1..Cardinality(docs) |->
     CHOOSE d \in docs : Cardinality({e \in docs : rank[e] < rank[d]}) = i - 1]

\* Property.find(filter) with no sort: the matching documents in storage order
Property_find(w, matching) ==
  InOrder(matching, [d \in matching |-> TbRank(w.tb, d.oid)])

\* Property.findOne({ propertyId: id })
Property_findOne(w, id) ==
  LET hit == {d \in w.props : d.propertyId = id}
      w1 == Log(w, Op("mongo", "findOne", <<"Property", id>>, {}, TRUE))
  IN IF hit = {} THEN [w |-> w1, found |-> FALSE, doc |-> NoDoc]
     ELSE [w |-> w1, found |-> TRUE, doc |-> CHOOSE d \in hit : TRUE]

\* Property.create(data): the insert fails on a duplicate propertyId (unique
\* index) or when MongoDB refuses the write
Property_create(w, data) ==
  IF ~w.dbOk \/ \E d \in w.props : d.propertyId = data.propertyId
    THEN [w |-> Log(w, Op("mongo", "insert", <<"Property", data.propertyId>>, {}, FALSE)),
          raised |-> TRUE, doc |-> NoDoc]
  ELSE LET doc == [oid |-> w.nextOid, propertyId |-> data.propertyId,
                   createdBy |-> data.createdBy, price |-> data.price,
                   type |-> data.type, amenities |-> data.amenities,
                   tags |-> data.tags, isVerified |-> data.isVerified]
       IN [w |-> Log([w EXCEPT !.props = @ \cup {doc}, !.nextOid = @ + 1],
                     Op("mongo", "insert", <<"Property", doc.propertyId>>, {}, TRUE)),
           raised |-> FALSE, doc |-> doc]

\* Property.findOneAndUpdate({ propertyId: id }, body, { new: true }): every
\* schema path named by the body is set to the body's value
ApplyUpdate(doc, body) ==
  [f \in Fields |-> IF f \in DOMAIN body THEN body[f] ELSE doc[f]]

Property_findOneAndUpdate(w, id, body) ==
  LET hit == {d \in w.props : d.propertyId = id}
      old == CHOOSE d \in hit : TRUE
      new == ApplyUpdate(old, body)
  IN IF ~w.dbOk
       THEN [w |-> Log(w, Op("mongo", "update", <<"Property", id>>, {}, FALSE)),
             raised |-> TRUE, found |-> FALSE, doc |-> NoDoc]
     ELSE IF hit = {}
       THEN [w |-> Log(w, Op("mongo", "update", <<"Property", id>>, {}, TRUE)),
             raised |-> FALSE, found |-> FALSE, doc |-> NoDoc]
     ELSE IF \E d \in w.props \ {old} : d.propertyId = new.propertyId
       THEN [w |-> Log(w, Op("mongo", "update", <<"Property", id>>, {}, FALSE)),
             raised |-> TRUE, found |-> FALSE, doc |-> NoDoc]
     ELSE [w |-> Log([w EXCEPT !.props = (@ \ {old}) \cup {new}],
                     Op("mongo", "update", <<"Property", id>>, {}, TRUE)),
           raised |-> FALSE, found |-> TRUE, doc |-> new]

\* property.deleteOne()
Property_deleteOne(w, doc) ==
  IF ~w.dbOk
    THEN [w |-> Log(w, Op("mongo", "delete", <<"Property", doc.propertyId>>, {}, FALSE)),
          raised |-> TRUE]
  ELSE [w |-> Log([w EXCEPT !.props = {d \in @ : d.oid # doc.oid}],
                  Op("mongo", "delete", <<"Property", doc.propertyId>>, {}, TRUE)),
        raised |-> FALSE]

(***************************************************************************)
(* Responses.  Caught is the handler's catch block: whatever the request   *)
(* did before the exception stays done.                                    *)
(***************************************************************************)
Reply(w, status, body) == [w |-> w, resp |-> [status |-> status, body |-> body]]
Caught(w, text) == Reply(w, 500, J("object", [error |-> text]))
Doc(d) == J("object", d)
Docs(seq) == J("array", seq)

(***************************************************************************)
(* Listing controllers (propertyController).                               *)
(***************************************************************************)
\* (variant) createProperty without the test for a user
createProperty_anonymous(w, user, body) ==
  LET c == Property_create(w, [body EXCEPT !.createdBy = user]) IN
  IF c.raised THEN Caught(c.w, "Failed to create property") ELSE
  LET d1 == CacheService_delByPattern(c.w, PATTERN_PROPERTIES) IN
  IF d1.raised THEN Caught(d1.w, "Failed to create property") ELSE
  LET d2 == CacheService_delByPattern(d1.w, PATTERN_SEARCH) IN
  IF d2.raised THEN Caught(d2.w, "Failed to create property") ELSE
  Reply(d2.w, 201, Doc(c.doc))

createProperty(w, user, body) ==
  IF user = NoUser THEN Reply(w, 401, Msg("User not authenticated"))
  ELSE
  LET c == Property_create(w, [body EXCEPT !.createdBy = user]) IN
  IF c.raised THEN Caught(c.w, "Failed to create property") ELSE
  LET d1 == CacheService_delByPattern(c.w, PATTERN_PROPERTIES) IN
  IF d1.raised THEN Caught(d1.w, "Failed to create property") ELSE
  LET d2 == CacheService_delByPattern(d1.w, PATTERN_SEARCH) IN
  IF d2.raised THEN Caught(d2.w, "Failed to create property") ELSE
  Reply(d2.w, 201, Doc(c.doc))

getAllProperties(w) ==
  LET g == CacheService_get(w, KEY_PROPERTIES) IN
  IF g.raised THEN Caught(g.w, "Failed to fetch properties") ELSE
  IF Truthy(g.val) THEN Reply(g.w, 200, g.val) ELSE
  LET w1 == Log(g.w, Op("mongo", "find", <<"Property">>, {}, TRUE))
      properties == Docs(Property_find(w1, w1.props))
      s == CacheService_set(w1, KEY_PROPERTIES, properties)
  IN IF s.raised THEN Caught(s.w, "Failed to fetch properties")
     ELSE Reply(s.w, 200, properties)

\* (variant) a lookup that also caches the not-found answer
getPropertyById_cachesNotFound(w, id) ==
  LET cacheKey == KEY_PROPERTY(id)
      g == CacheService_get(w, cacheKey)
  IN
  IF g.raised THEN Caught(g.w, "Failed to fetch property") ELSE
  IF Truthy(g.val) THEN Reply(g.w, 200, g.val) ELSE
  LET f == Property_findOne(g.w, id) IN
  IF ~f.found
    THEN Reply(CacheService_set(f.w, cacheKey, Msg("Property not found")).w,
               404, Msg("Property not found")) ELSE
  LET s == CacheService_set(f.w, cacheKey, Doc(f.doc)) IN
  IF s.raised THEN Caught(s.w, "Failed to fetch property")
  ELSE Reply(s.w, 200, Doc(f.doc))

getPropertyById(w, id) ==
  LET cacheKey == KEY_PROPERTY(id)
      g == CacheService_get(w, cacheKey)
  IN
  IF g.raised THEN Caught(g.w, "Failed to fetch property") ELSE
  IF Truthy(g.val) THEN Reply(g.w, 200, g.val) ELSE
  LET f == Property_findOne(g.w, id) IN
  IF ~f.found THEN Reply(f.w, 404, Msg("Property not found")) ELSE
  LET s == CacheService_set(f.w, cacheKey, Doc(f.doc)) IN
  IF s.raised THEN Caught(s.w, "Failed to fetch property")
  ELSE Reply(s.w, 200, Doc(f.doc))

\* (variant) updateProperty that leaves the cached search results in place
updateProperty_keepsSearches(w, user, id, body) ==
  IF user = NoUser THEN Reply(w, 401, Msg("User not authenticated")) ELSE
  LET f == Property_findOne(w, id) IN
  IF ~f.found THEN Reply(f.w, 404, Msg("Property not found")) ELSE
  IF f.doc.createdBy # user
    THEN Reply(f.w, 403, Msg("Not allowed to update this property")) ELSE
  LET u == Property_findOneAndUpdate(f.w, id, body) IN
  IF u.raised THEN Caught(u.w, "Failed to update property") ELSE
  LET d1 == CacheService_del(u.w, KEY_PROPERTY(id)) IN
  IF d1.raised THEN Caught(d1.w, "Failed to update property") ELSE
  LET d2 == CacheService_delByPattern(d1.w, PATTERN_PROPERTIES) IN
  IF d2.raised THEN Caught(d2.w, "Failed to update property") ELSE
  Reply(d2.w, 200, IF u.found THEN Doc(u.doc) ELSE Null)

updateProperty(w, user, id, body) ==
  IF user = NoUser THEN Reply(w, 401, Msg("User not authenticated")) ELSE
  LET f == Property_findOne(w, id) IN
  IF ~f.found THEN Reply(f.w, 404, Msg("Property not found")) ELSE
  IF f.doc.createdBy # user
    THEN Reply(f.w, 403, Msg("Not allowed to update this property")) ELSE
  LET u == Property_findOneAndUpdate(f.w, id, body) IN
  IF u.raised THEN Caught(u.w, "Failed to update property") ELSE
  LET d1 == CacheService_del(u.w, KEY_PROPERTY(id)) IN
  IF d1.raised THEN Caught(d1.w, "Failed to update property") ELSE
  LET d2 == CacheService_delByPattern(d1.w, PATTERN_PROPERTIES) IN
  IF d2.raised THEN Caught(d2.w, "Failed to update property") ELSE
  LET d3 == CacheService_delByPattern(d2.w, PATTERN_SEARCH) IN
  IF d3.raised THEN Caught(d3.w, "Failed to update property") ELSE
  Reply(d3.w, 200, IF u.found THEN Doc(u.doc) ELSE Null)

\* (variant) delete without the ownership test
deleteProperty_unchecked(w, user, id) ==
  IF user = NoUser THEN Reply(w, 401, Msg("User not authenticated")) ELSE
  LET f == Property_findOne(w, id) IN
  IF ~f.found THEN Reply(f.w, 404, Msg("Property not found")) ELSE
  LET x == Property_deleteOne(f.w, f.doc) IN
  IF x.raised THEN Caught(x.w, "Failed to delete property") ELSE
  LET d1 == CacheService_del(x.w, KEY_PROPERTY(id)) IN
  LET d2 == CacheService_delByPattern(d1.w, PATTERN_PROPERTIES) IN
  LET d3 == CacheService_delByPattern(d2.w, PATTERN_SEARCH) IN
  Reply(d3.w, 200, Msg("Property deleted"))

deleteProperty(w, user, id) ==
  IF user = NoUser THEN Reply(w, 401, Msg("User not authenticated")) ELSE
  LET f == Property_findOne(w, id) IN
  IF ~f.found THEN Reply(f.w, 404, Msg("Property not found")) ELSE
  IF f.doc.createdBy # user
    THEN Reply(f.w, 403, Msg("Not allowed to delete this property")) ELSE
  LET x == Property_deleteOne(f.w, f.doc) IN
  IF x.raised THEN Caught(x.w, "Failed to delete property") ELSE
  LET d1 == CacheService_del(x.w, KEY_PROPERTY(id)) IN
  IF d1.raised THEN Caught(d1.w, "Failed to delete property") ELSE
  LET d2 == CacheService_delByPattern(d1.w, PATTERN_PROPERTIES) IN
  IF d2.raised THEN Caught(d2.w, "Failed to delete property") ELSE
  LET d3 == CacheService_delByPattern(d2.w, PATTERN_SEARCH) IN
  IF d3.raised THEN Caught(d3.w, "Failed to delete property") ELSE
  Reply(d3.w, 200, Msg("Property deleted"))

(***************************************************************************)
(* searchProperties.  req.query is the sequence of <<name, value>> pairs   *)
(* in the order the parameters arrive; names are distinct, values strings. *)
(***************************************************************************)
Has(query, name) == \E i \in 1..Len(query) : query[i][1] = name
Get(query, name) == query[CHOOSE i \in 1..Len(query) : query[i][1] = name][2]
\* a destructured parameter with a default: the default replaces undefined only
OrDefault(query, name, default) == IF Has(query, name) THEN Get(query, name) ELSE default
\* if (param): present and not the empty string
Given(query, name) == Has(query, name) /\ Get(query, name) # ""

\* JSON.stringify(req.query): the members in insertion order
RECURSIVE Members(_, _)
Members(query, i) ==
  IF i > Len(query) THEN ""
  ELSE (IF i > 1 THEN "," ELSE "")
       \o "\"" \o query[i][1] \o "\":\"" \o query[i][2] \o "\""
       \o Members(query, i + 1)
Query_stringify(query) == "{" \o Members(query, 1) \o "}"

\* parseInt(s) for decimal text: leading blanks, an optional sign, then the
\* longest run of digits; NaN when there is no digit
Char(s, i) == SubSeq(s, i, i)
IsDigit(c) == \E d \in 0..9 : Char("0123456789", d + 1) = c
DigitVal(c) == CHOOSE d \in 0..9 : Char("0123456789", d + 1) = c
NaN == [nan |-> TRUE, n |-> 0]
Num(n) == [nan |-> FALSE, n |-> n]
RECURSIVE SkipBlanks(_, _)
SkipBlanks(s, i) == IF i <= Len(s) /\ Char(s, i) = " " THEN SkipBlanks(s, i + 1) ELSE i
RECURSIVE ReadDigits(_, _, _)
ReadDigits(s, i, acc) ==
  IF i <= Len(s) /\ IsDigit(Char(s, i))
    THEN ReadDigits(s, i + 1, [n |-> acc.n * 10 + DigitVal(Char(s, i)), count |-> acc.count + 1])
    ELSE acc
parseInt(s) ==
  LET i == SkipBlanks(s, 1)
      signed == i <= Len(s) /\ Char(s, i) \in {"-", "+"}
      r == ReadDigits(s, IF signed THEN i + 1 ELSE i, [n |-> 0, count |-> 0])
  IN IF r.count = 0 THEN NaN
     ELSE Num(IF signed /\ Char(s, i) = "-" THEN 0 - r.n ELSE r.n)

\* x >= bound and x <= bound as MongoDB's $gte / $lte evaluate them: nothing
\* compares with NaN
Gte(x, bound) == ~bound.nan /\ x >= bound.n
Lte(x, bound) == ~bound.nan /\ x <= bound.n

\* s.split('|')
RECURSIVE SplitFrom(_, _, _)
SplitFrom(s, i, piece) ==
  IF i > Len(s) THEN <<piece>>
  ELSE IF Char(s, i) = "|" THEN <<piece>> \o SplitFrom(s, i + 1, "")
  ELSE SplitFrom(s, i + 1, piece \o Char(s, i))
Split(s) == SplitFrom(s, 1, "")

Elements(seq) == {seq[i] : i \in 1..Len(seq)}

\* (variant) a filter that takes a listing with any one of the listed values
Filter_anyOf(query, d) ==
  /\ Given(query, "type") => d.type = Get(query, "type")
  /\ Has(query, "isVerified") => d.isVerified = (Get(query, "isVerified") = "true")
  /\ Given(query, "minPrice") => Gte(d.price, parseInt(Get(query, "minPrice")))
  /\ Given(query, "maxPrice") => Lte(d.price, parseInt(Get(query, "maxPrice")))
  /\ Given(query, "amenities") =>
       \E a \in Elements(Split(Get(query, "amenities"))) : a \in Elements(d.amenities)
  /\ Given(query, "tags") =>
       \E t \in Elements(Split(Get(query, "tags"))) : t \in Elements(d.tags)

\* the filter object built from the query, as a predicate on documents (the
\* constraints on the fields this model carries: type, price, isVerified,
\* amenities and tags)
Filter(query, d) ==
  /\ Given(query, "type") => d.type = Get(query, "type")
  /\ Has(query, "isVerified") => d.isVerified = (Get(query, "isVerified") = "true")
  /\ Given(query, "minPrice") => Gte(d.price, parseInt(Get(query, "minPrice")))
  /\ Given(query, "maxPrice") => Lte(d.price, parseInt(Get(query, "maxPrice")))
  /\ Given(query, "amenities") =>
       \A a \in Elements(Split(Get(query, "amenities"))) : a \in Elements(d.amenities)
  /\ Given(query, "tags") =>
       \A t \in Elements(Split(Get(query, "tags"))) : t \in Elements(d.tags)

\* Mongoose casts the filter to the schema before it queries: NaN under a
\* Number path is a CastError, which rejects the query
FilterCastFails(query) ==
  \E name \in {"minPrice", "maxPrice"} :
    Given(query, name) /\ parseInt(Get(query, name)).nan

\* the value MongoDB sorts a document by: a path the documents do not carry
\* orders nothing
TypeRank(t) == IF t = "Flat" THEN 1 ELSE IF t = "Villa" THEN 2 ELSE 0
SortValue(d, sortBy) ==
  IF sortBy = "price" THEN d.price
  ELSE IF sortBy = "type" THEN TypeRank(d.type)
  ELSE 0

\* Property.find(filter).sort(sort): ties are returned in storage order
Property_findSorted(w, query, sortBy, direction) ==
  LET matching == {d \in w.props : Filter(query, d)}
      width == Cardinality(w.props) + 1
  IN InOrder(matching,
             [d \in matching |->
                direction * SortValue(d, sortBy) * width + TbRank(w.tb, d.oid)])

Min(a, b) == IF a < b THEN a ELSE b
\* .skip(skip).limit(limit), for skip >= 0: limit 0 is no limit, a negative
\* limit returns at most -limit documents
Page(seq, skip, limit) ==
  LET atMost == IF limit = 0 THEN Len(seq) ELSE IF limit < 0 THEN 0 - limit ELSE limit
  IN SubSeq(seq, skip + 1, Min(Len(seq), skip + atMost))
\* (variant) the quotient rounded down
Ceil_floor(total, limit) == total \div limit

\* Math.ceil(total / limit) for total >= 0 and limit # 0
Ceil(total, limit) ==
  IF limit > 0 THEN (total + limit - 1) \div limit
  ELSE 0 - (total \div (0 - limit))
\* a number as JSON.stringify writes it: Infinity and NaN become null
JNum(n) == J("number", <<n>>)
Pages(total, limit) == IF limit = 0 THEN Null ELSE JNum(Ceil(total, limit))

\* getFilterOptions(): the distinct values of the enumerated paths (of which
\* this model carries type, amenities and tags)
getFilterOptions(w) ==
  [types |-> {d.type : d \in w.props},
   amenities |-> UNION {Elements(d.amenities) : d \in w.props},
   tags |-> UNION {Elements(d.tags) : d \in w.props}]

searchProperties(w, query) ==
  LET queryString == Query_stringify(query)
      cacheKey == KEY_SEARCH(queryString)
      g == CacheService_get(w, cacheKey)
  IN
  IF g.raised THEN Caught(g.w, "Error searching properties") ELSE
  IF Truthy(g.val) THEN Reply(g.w, 200, g.val) ELSE
  LET page == OrDefault(query, "page", "1")
      limit == OrDefault(query, "limit", "10")
      sortBy == OrDefault(query, "sortBy", "price")
      sortOrder == OrDefault(query, "sortOrder", "asc")
      pageNum == parseInt(page).n
      limitNum == parseInt(limit).n
      skip == (pageNum - 1) * limitNum
      direction == IF sortOrder = "asc" THEN 1 ELSE 0 - 1
      \* the query is rejected on a filter that does not cast, on a skip or
      \* limit that is not a number, and on a negative skip
      rejected == \/ FilterCastFails(query)
                  \/ parseInt(page).nan \/ parseInt(limit).nan
                  \/ skip < 0
      w0 == Log(g.w, Op("mongo", "find", <<"Property", skip, limitNum>>, {}, FALSE))
  IN
  IF rejected THEN Caught(w0, "Error searching properties") ELSE
  LET w1 == Log(g.w, Op("mongo", "find", <<"Property", skip, limitNum>>, {}, TRUE))
      sorted == Property_findSorted(w1, query, sortBy, direction)
      properties == Page(sorted, skip, limitNum)
      total == Len(sorted)
      filterOptions == getFilterOptions(w1)
      result == J("object",
                  [success |-> TRUE,
                   data |-> [properties |-> properties,
                             pagination |-> [total |-> total, page |-> pageNum,
                                             limit |-> limitNum,
                                             pages |-> Pages(total, limitNum)],
                             filterOptions |-> filterOptions]])
      s == CacheService_set(w1, cacheKey, result)
  IN IF s.raised THEN Caught(s.w, "Error searching properties")
     ELSE Reply(s.w, 200, result)

getFilterOptionsController(w) ==
  LET g == CacheService_get(w, KEY_FILTERS) IN
  IF g.raised THEN Caught(g.w, "Error getting filter options") ELSE
  IF Truthy(g.val) THEN Reply(g.w, 200, g.val) ELSE
  LET w1 == Log(g.w, Op("mongo", "distinct", <<"Property">>, {}, TRUE))
      result == J("object", [success |-> TRUE, data |-> getFilterOptions(w1)])
      s == CacheService_set(w1, KEY_FILTERS, result)
  IN IF s.raised THEN Caught(s.w, "Error getting filter options")
     ELSE Reply(s.w, 200, result)

(***************************************************************************)
(* The User collection (src/models/User.ts): favorites is the array of     *)
(* favorited propertyIds, recommendationsReceived the array of             *)
(* [propertyId, recommendedBy] (recommendedAt, a timestamp, is not         *)
(* carried).                                                               *)
(***************************************************************************)
\* userDoc.save() / recipient.save()
User_save(w, userId, doc) ==
  IF ~w.dbOk
    THEN [w |-> Log(w, Op("mongo", "save", <<"User", userId>>, {}, FALSE)), raised |-> TRUE]
  ELSE [w |-> Log([w EXCEPT !.users[userId] = doc],
                  Op("mongo", "save", <<"User", userId>>, {}, TRUE)),
        raised |-> FALSE]

Includes(seq, x) == \E i \in 1..Len(seq) : seq[i] = x

(***************************************************************************)
(* favoriteController.                                                     *)
(***************************************************************************)
getFavorites(w, user) ==
  IF user = NoUser THEN Reply(w, 401, Msg("User not authenticated")) ELSE
  LET cacheKey == KEY_USER_FAVORITES(user)
      g == CacheService_get(w, cacheKey)
  IN
  IF g.raised THEN Caught(g.w, "Failed to fetch favorites") ELSE
  IF Truthy(g.val) THEN Reply(g.w, 200, g.val) ELSE
  LET w1 == Log(g.w, Op("mongo", "findById", <<"User", user>>, {}, TRUE)) IN
  IF user \notin DOMAIN w1.users THEN Reply(w1, 404, Msg("User not found")) ELSE
  LET userDoc == w1.users[user]
      w2 == Log(w1, Op("mongo", "find", <<"Property">>, {}, TRUE))
      favoriteProperties ==
        Docs(Property_find(w2, {d \in w2.props : Includes(userDoc.favorites, d.propertyId)}))
      s == CacheService_set(w2, cacheKey, favoriteProperties)
  IN IF s.raised THEN Caught(s.w, "Failed to fetch favorites")
     ELSE Reply(s.w, 200, favoriteProperties)

\* (variant) addFavorite that invalidates before it saves
addFavorite_invalidatesFirst(w, user, propertyId) ==
  IF user = NoUser THEN Reply(w, 401, Msg("User not authenticated")) ELSE
  LET f == Property_findOne(w, propertyId) IN
  IF ~f.found THEN Reply(f.w, 404, Msg("Property not found")) ELSE
  LET w1 == Log(f.w, Op("mongo", "findById", <<"User", user>>, {}, TRUE)) IN
  IF user \notin DOMAIN w1.users THEN Reply(w1, 404, Msg("User not found")) ELSE
  LET userDoc == w1.users[user] IN
  IF Includes(userDoc.favorites, f.doc.propertyId)
    THEN Reply(w1, 400, Msg("Property already in favorites")) ELSE
  LET d1 == CacheService_del(w1, KEY_USER_FAVORITES(user))
      sv == User_save(d1.w, user,
                      [userDoc EXCEPT !.favorites = Append(@, f.doc.propertyId)])
  IN
  IF sv.raised THEN Caught(sv.w, "Failed to add favorite") ELSE
  Reply(sv.w, 200, Msg("Property added to favorites"))

addFavorite(w, user, propertyId) ==
  IF user = NoUser THEN Reply(w, 401, Msg("User not authenticated")) ELSE
  LET f == Property_findOne(w, propertyId) IN
  IF ~f.found THEN Reply(f.w, 404, Msg("Property not found")) ELSE
  LET w1 == Log(f.w, Op("mongo", "findById", <<"User", user>>, {}, TRUE)) IN
  IF user \notin DOMAIN w1.users THEN Reply(w1, 404, Msg("User not found")) ELSE
  LET userDoc == w1.users[user] IN
  IF Includes(userDoc.favorites, f.doc.propertyId)
    THEN Reply(w1, 400, Msg("Property already in favorites")) ELSE
  LET sv == User_save(w1, user,
                      [userDoc EXCEPT !.favorites = Append(@, f.doc.propertyId)]) IN
  IF sv.raised THEN Caught(sv.w, "Failed to add favorite") ELSE
  LET d1 == CacheService_del(sv.w, KEY_USER_FAVORITES(user)) IN
  IF d1.raised THEN Caught(d1.w, "Failed to add favorite") ELSE
  Reply(d1.w, 200, Msg("Property added to favorites"))

\* (variant) removeFavorite that leaves the user's cached favorites in place
removeFavorite_keepsEntry(w, user, propertyId) ==
  IF user = NoUser THEN Reply(w, 401, Msg("User not authenticated")) ELSE
  LET f == Property_findOne(w, propertyId) IN
  IF ~f.found THEN Reply(f.w, 404, Msg("Property not found")) ELSE
  LET w1 == Log(f.w, Op("mongo", "findById", <<"User", user>>, {}, TRUE)) IN
  IF user \notin DOMAIN w1.users THEN Reply(w1, 404, Msg("User not found")) ELSE
  LET userDoc == w1.users[user]
      Keep(favId) == favId # f.doc.propertyId
      sv == User_save(w1, user,
                      [userDoc EXCEPT !.favorites = SelectSeq(@, Keep)])
  IN
  IF sv.raised THEN Caught(sv.w, "Failed to remove favorite") ELSE
  Reply(sv.w, 200, Msg("Property removed from favorites"))

removeFavorite(w, user, propertyId) ==
  IF user = NoUser THEN Reply(w, 401, Msg("User not authenticated")) ELSE
  LET f == Property_findOne(w, propertyId) IN
  IF ~f.found THEN Reply(f.w, 404, Msg("Property not found")) ELSE
  LET w1 == Log(f.w, Op("mongo", "findById", <<"User", user>>, {}, TRUE)) IN
  IF user \notin DOMAIN w1.users THEN Reply(w1, 404, Msg("User not found")) ELSE
  LET userDoc == w1.users[user]
      Keep(favId) == favId # f.doc.propertyId
      sv == User_save(w1, user,
                      [userDoc EXCEPT !.favorites = SelectSeq(@, Keep)])
  IN
  IF sv.raised THEN Caught(sv.w, "Failed to remove favorite") ELSE
  LET d1 == CacheService_del(sv.w, KEY_USER_FAVORITES(user)) IN
  IF d1.raised THEN Caught(d1.w, "Failed to remove favorite") ELSE
  Reply(d1.w, 200, Msg("Property removed from favorites"))

(***************************************************************************)
(* recommendationController.                                               *)
(***************************************************************************)
\* (variant) recommendProperty that invalidates the recommender's key
recommendProperty_invalidatesSender(w, user, propertyId, recipientEmail) ==
  IF user = NoUser THEN Reply(w, 401, Msg("User not authenticated")) ELSE
  IF recipientEmail = "" THEN Reply(w, 400, Msg("Recipient email is required")) ELSE
  LET f == Property_findOne(w, propertyId) IN
  IF ~f.found THEN Reply(f.w, 404, Msg("Property not found")) ELSE
  LET w1 == Log(f.w, Op("mongo", "findOne", <<"User", recipientEmail>>, {}, TRUE))
      found == {u \in DOMAIN w1.users : Email[u] = recipientEmail}
  IN
  IF found = {} THEN Reply(w1, 404, Msg("Recipient not found")) ELSE
  LET recipientId == CHOOSE u \in found : TRUE
      recipient == w1.users[recipientId]
      rec == [propertyId |-> f.doc.propertyId, recommendedBy |-> user]
  IN
  IF Includes(recipient.recommendationsReceived, rec)
    THEN Reply(w1, 400, Msg("Property already recommended to this user")) ELSE
  LET sv == User_save(w1, recipientId,
                      [recipient EXCEPT !.recommendationsReceived = Append(@, rec)]) IN
  IF sv.raised THEN Caught(sv.w, "Failed to recommend property") ELSE
  LET d1 == CacheService_del(sv.w, KEY_USER_RECOMMENDATIONS(user)) IN
  IF d1.raised THEN Caught(d1.w, "Failed to recommend property") ELSE
  Reply(d1.w, 200, Msg("Property recommended successfully"))

recommendProperty(w, user, propertyId, recipientEmail) ==
  IF user = NoUser THEN Reply(w, 401, Msg("User not authenticated")) ELSE
  IF recipientEmail = "" THEN Reply(w, 400, Msg("Recipient email is required")) ELSE
  LET f == Property_findOne(w, propertyId) IN
  IF ~f.found THEN Reply(f.w, 404, Msg("Property not found")) ELSE
  LET w1 == Log(f.w, Op("mongo", "findOne", <<"User", recipientEmail>>, {}, TRUE))
      found == {u \in DOMAIN w1.users : Email[u] = recipientEmail}
  IN
  IF found = {} THEN Reply(w1, 404, Msg("Recipient not found")) ELSE
  LET recipientId == CHOOSE u \in found : TRUE
      recipient == w1.users[recipientId]
      rec == [propertyId |-> f.doc.propertyId, recommendedBy |-> user]
  IN
  IF Includes(recipient.recommendationsReceived, rec)
    THEN Reply(w1, 400, Msg("Property already recommended to this user")) ELSE
  LET sv == User_save(w1, recipientId,
                      [recipient EXCEPT !.recommendationsReceived = Append(@, rec)]) IN
  IF sv.raised THEN Caught(sv.w, "Failed to recommend property") ELSE
  LET d1 == CacheService_del(sv.w, KEY_USER_RECOMMENDATIONS(recipientId)) IN
  IF d1.raised THEN Caught(d1.w, "Failed to recommend property") ELSE
  Reply(d1.w, 200, Msg("Property recommended successfully"))

getRecommendations(w, user) ==
  IF user = NoUser THEN Reply(w, 401, Msg("User not authenticated")) ELSE
  LET cacheKey == KEY_USER_RECOMMENDATIONS(user)
      g == CacheService_get(w, cacheKey)
  IN
  IF g.raised THEN Caught(g.w, "Failed to fetch recommendations") ELSE
  IF Truthy(g.val) THEN Reply(g.w, 200, g.val) ELSE
  LET w1 == Log(g.w, Op("mongo", "findById", <<"User", user>>, {}, TRUE)) IN
  IF user \notin DOMAIN w1.users THEN Reply(w1, 404, Msg("User not found")) ELSE
  LET userDoc == w1.users[user]
      w2 == Log(w1, Op("mongo", "findOne", <<"Property">>, {}, TRUE))
      Resolve(rec) ==
        LET hit == {d \in w2.props : d.propertyId = rec.propertyId}
        IN [property |-> IF hit = {} THEN Null ELSE Doc(CHOOSE d \in hit : TRUE),
            recommendedBy |-> [oid |-> rec.recommendedBy,
                               email |-> Email[rec.recommendedBy]]]
      recommendations ==
        J("array", [i \in 1..Len(userDoc.recommendationsReceived) |->
                      Resolve(userDoc.recommendationsReceived[i])])
      s == CacheService_set(w2, cacheKey, recommendations)
  IN IF s.raised THEN Caught(s.w, "Failed to fetch recommendations")
     ELSE Reply(s.w, 200, recommendations)

(***************************************************************************)
(* Requests.                                                               *)
(***************************************************************************)
Callers == Users \cup {NoUser}
CreateBodies ==
  {[propertyId |-> i, price |-> 100, type |-> "Villa", createdBy |-> NoOwner,
    amenities |-> <<"pool", "gym">>, tags |-> <<"sea">>, isVerified |-> TRUE] : i \in PropIds}
    \cup {[propertyId |-> i, price |-> 200, type |-> "Flat", createdBy |-> NoOwner,
            amenities |-> <<"pool">>, tags |-> <<>>, isVerified |-> FALSE] : i \in PropIds}
UpdateBodies ==
  {[price |-> p] : p \in Prices} \cup {[type |-> t] : t \in Types}
    \cup {[createdBy |-> u] : u \in Users} \cup {[propertyId |-> i] : i \in PropIds}
Queries ==
  { <<>>,
    << <<"minPrice", "200">>, <<"sortOrder", "desc">> >>,
    << <<"sortOrder", "desc">>, <<"minPrice", "200">> >> }
RecipientEmails == {Email[u] : u \in Users} \cup {"", "nobody@mail"}
NoOrder == <<>>
\* a handler makes at most five Redis calls
NoOutage == {}
Outage == 1..5

NoKey == <<"none">>
NoProbe == [id |-> "", stage |-> 0]

Init ==
  /\ props = {}
  /\ nextOid = 1
  /\ users = [u \in Users |-> [favorites |-> <<>>, recommendationsReceived |-> <<>>]]
  /\ cache = <<>>
  /\ last = [kind |-> "none", user |-> NoUser, id |-> "", query |-> <<>>,
             key |-> NoKey, fail |-> NoOutage, wasFresh |-> FALSE, ops |-> <<>>,
             resp |-> [status |-> 0, body |-> Null]]
  /\ nreq = 0
  /\ origin = {}
  /\ fresh = {}
  /\ probe = NoProbe
  /\ age = [k \in DOMAIN cache |-> 0]
  /\ inflight = <<>>

\* the calls of an operation log that changed a collection
Wrote(ops) ==
  \E i \in 1..Len(ops) :
    ops[i].sys = "mongo" /\ ops[i].op \in {"insert", "update", "delete", "save"} /\ ops[i].ok
\* whether an operation log stored the key in Redis
Stored(ops, key) ==
  \E i \in 1..Len(ops) : ops[i].sys = "redis" /\ ops[i].op = "SET" /\ ops[i].arg = key /\ ops[i].ok

NextProbe(kind, id, status) ==
  IF kind = "getPropertyById" /\ probe.stage = 2 /\ probe.id = id
    THEN [id |-> id, stage |-> 3]
  ELSE IF kind = "getPropertyById" /\ status = 404 THEN [id |-> id, stage |-> 1]
  ELSE IF kind = "createProperty" /\ status = 201 /\ probe.stage = 1 /\ probe.id = id
    THEN [id |-> id, stage |-> 2]
  ELSE NoProbe

\* the ages after a request: 0 for the keys it stored, none for the keys gone
SinceSet(a, c, ops) ==
  [k \in DOMAIN c |-> IF Stored(ops, k) \/ k \notin DOMAIN a THEN 0 ELSE a[k]]

\* one request handled from its first statement to its response
Handle(kind, user, id, query, key, fail, budget, r) ==
  /\ nreq < budget
  /\ nreq' = nreq + 1
  /\ props' = r.w.props
  /\ nextOid' = r.w.nextOid
  /\ users' = r.w.users
  /\ cache' = r.w.cache
  /\ last' = [kind |-> kind, user |-> user, id |-> id, query |-> query, key |-> key,
              fail |-> fail, wasFresh |-> key \in fresh, ops |-> r.w.ops, resp |-> r.resp]
  /\ origin' = origin \cup
       {[oid |-> d.oid, createdBy |-> d.createdBy, propertyId |-> d.propertyId] :
          d \in {e \in r.w.props : e.oid >= nextOid}}
  /\ fresh' = IF Wrote(r.w.ops) THEN {}
              ELSE IF Stored(r.w.ops, key) THEN fresh \cup {key}
              ELSE fresh
  /\ probe' = NextProbe(kind, id, r.resp.status)
  /\ age' = SinceSet(age, r.w.cache, r.w.ops)
  /\ UNCHANGED inflight

\* whether MongoDB accepts the write matters only to a request that gets
\* as far as the store
Stores(reaches) == IF reaches THEN BOOLEAN ELSE {TRUE}

CreateProperty(fails, budget) ==
  /\ nreq < budget
  /\ nextOid <= MaxDocs
  /\ \E user \in Callers, body \in CreateBodies, fail \in fails :
     \E dbOk \in Stores(user # NoUser) :
       Handle("createProperty", user, body.propertyId, <<>>, NoKey, fail, budget,
              createProperty(World(fail, dbOk, NoOrder), user, body))

GetAllProperties(fails, budget) ==
  /\ nreq < budget
  /\ \E tb \in TieBreaks(props), fail \in fails :
       Handle("getAllProperties", NoUser, "", <<>>, KEY_PROPERTIES, fail, budget,
              getAllProperties(World(fail, TRUE, tb)))

GetPropertyById(fails, budget) ==
  /\ nreq < budget
  /\ \E id \in PropIds, fail \in fails :
       Handle("getPropertyById", NoUser, id, <<>>, KEY_PROPERTY(id), fail, budget,
              getPropertyById(World(fail, TRUE, NoOrder), id))

\* a request that is rejected unauthenticated, or whose write MongoDB
\* refuses, has the same outcome whatever the body says
BodiesSent(read) == IF read THEN UpdateBodies ELSE {[price |-> 200]}

UpdateProperty(fails, budget) ==
  /\ nreq < budget
  /\ \E user \in Callers, id \in PropIds, fail \in fails :
     \E dbOk \in Stores(user # NoUser) : \E body \in BodiesSent(user # NoUser /\ dbOk) :
       Handle("updateProperty", user, id, <<>>, NoKey, fail, budget,
              updateProperty(World(fail, dbOk, NoOrder), user, id, body))

DeleteProperty(fails, budget) ==
  /\ nreq < budget
  /\ \E user \in Callers, id \in PropIds, fail \in fails :
     \E dbOk \in Stores(user # NoUser) :
       Handle("deleteProperty", user, id, <<>>, NoKey, fail, budget,
              deleteProperty(World(fail, dbOk, NoOrder), user, id))

SearchProperties(fails, budget) ==
  /\ nreq < budget
  /\ \E query \in Queries, tb \in TieBreaks(props), fail \in fails :
       Handle("searchProperties", NoUser, "", query, KEY_SEARCH(Query_stringify(query)), fail, budget,
              searchProperties(World(fail, TRUE, tb), query))

GetFilterOptions(fails, budget) ==
  /\ nreq < budget
  /\ \E fail \in fails :
       Handle("getFilterOptionsController", NoUser, "", <<>>, KEY_FILTERS, fail, budget,
              getFilterOptionsController(World(fail, TRUE, NoOrder)))

GetFavorites(fails, budget) ==
  /\ nreq < budget
  /\ \E user \in Callers, tb \in TieBreaks(props), fail \in fails :
       Handle("getFavorites", user, "", <<>>,
              IF user = NoUser THEN NoKey ELSE KEY_USER_FAVORITES(user), fail, budget,
              getFavorites(World(fail, TRUE, tb), user))

AddFavorite(fails, budget) ==
  /\ nreq < budget
  /\ \E user \in Callers, id \in PropIds, fail \in fails :
     \E dbOk \in Stores(user # NoUser) :
       Handle("addFavorite", user, id, <<>>, NoKey, fail, budget,
              addFavorite(World(fail, dbOk, NoOrder), user, id))

RemoveFavorite(fails, budget) ==
  /\ nreq < budget
  /\ \E user \in Callers, id \in PropIds, fail \in fails :
     \E dbOk \in Stores(user # NoUser) :
       Handle("removeFavorite", user, id, <<>>, NoKey, fail, budget,
              removeFavorite(World(fail, dbOk, NoOrder), user, id))

RecommendProperty(fails, budget) ==
  /\ nreq < budget
  /\ \E user \in Callers, id \in PropIds, email \in RecipientEmails, fail \in fails :
     \E dbOk \in Stores(user # NoUser /\ \E u \in Users : Email[u] = email) :
       Handle("recommendProperty", user, id, <<>>, NoKey, fail, budget,
              recommendProperty(World(fail, dbOk, NoOrder), user, id, email))

GetRecommendations(fails, budget) ==
  /\ nreq < budget
  /\ \E user \in Callers, fail \in fails :
       Handle("getRecommendations", user, "", <<>>,
              IF user = NoUser THEN NoKey ELSE KEY_USER_RECOMMENDATIONS(user), fail, budget,
              getRecommendations(World(fail, TRUE, NoOrder), user))

\* Redis drops an entry whose TTL has run out
Expire ==
  \E key \in DOMAIN cache :
    /\ cache' = Without(cache, {key})
    /\ fresh' = fresh \ {key}
    /\ age' = [k \in DOMAIN age \ {key} |-> age[k]]
    /\ UNCHANGED <<props, nextOid, users, last, nreq, origin, probe, inflight>>

Requests(fails, budget) ==
  \/ CreateProperty(fails, budget)
  \/ GetAllProperties(fails, budget)
  \/ GetPropertyById(fails, budget)
  \/ UpdateProperty(fails, budget)
  \/ DeleteProperty(fails, budget)
  \/ SearchProperties(fails, budget)
  \/ GetFilterOptions(fails, budget)
  \/ GetFavorites(fails, budget)
  \/ AddFavorite(fails, budget)
  \/ RemoveFavorite(fails, budget)
  \/ RecommendProperty(fails, budget)
  \/ GetRecommendations(fails, budget)

\* requests one at a time over a Redis transport that works
Next == Requests({NoOutage}, MaxRequests) \/ Expire
Spec == Init /\ [][Next]_vars

\* the same, each request with the transport working or failing on every call
NextOutage == Requests({NoOutage, Outage}, MaxOutageRequests) \/ Expire
SpecOutage == Init /\ [][NextOutage]_vars

(***************************************************************************)
(* CacheService.get on its own: Redis holds any mix of strings under a few *)
(* keys (written by this program or by anything else that shares the       *)
(* instance), and get is called on each key with the transport working or  *)
(* failing.                                                                *)
(***************************************************************************)
GetKeys == {KEY_PROPERTIES, KEY_PROPERTY("P1"), KEY_FILTERS}
StoredStrings ==
  {JSON_stringify(Doc([oid |-> 1, propertyId |-> "P1", createdBy |-> "u1",
                       price |-> 100, type |-> "Villa",
                       amenities |-> <<"pool", "gym">>, tags |-> <<"sea">>,
                       isVerified |-> TRUE])),
   JSON_stringify(Docs(<<>>)),
   JSON_stringify(J("number", <<0>>)),
   JSON_stringify(Null),
   NotJSON,
   EmptyString}

InitGet ==
  /\ \E present \in SUBSET GetKeys :
       cache \in [present -> [data : StoredStrings, ex : {CACHE_TTL}]]
  /\ props = {}
  /\ nextOid = 1
  /\ users = [u \in Users |-> [favorites |-> <<>>, recommendationsReceived |-> <<>>]]
  /\ last = [kind |-> "none", key |-> NoKey, fail |-> NoOutage,
             raised |-> FALSE, val |-> Null]
  /\ nreq = 0
  /\ origin = {}
  /\ fresh = {}
  /\ probe = NoProbe
  /\ age = [k \in DOMAIN cache |-> 0]
  /\ inflight = <<>>

CacheGet ==
  \E key \in GetKeys, fail \in {NoOutage, Outage} :
    LET r == CacheService_get(World(fail, TRUE, NoOrder), key)
    IN /\ last' = [kind |-> "CacheService.get", key |-> key, fail |-> fail,
                   raised |-> r.raised, val |-> r.val]
       /\ cache' = r.w.cache
       /\ UNCHANGED <<props, nextOid, users, nreq, origin, fresh, probe, age, inflight>>

SpecGet == InitGet /\ [][CacheGet]_vars

(***************************************************************************)
(* CacheService.set and CacheService.get under a clock.  An entry carries  *)
(* the seconds Redis still keeps it (SET key value EX ttl); when the clock *)
(* advances, every entry's time is reduced and the entries whose time has  *)
(* run out are gone.                                                       *)
(***************************************************************************)
TtlKeys == {KEY_PROPERTIES, KEY_FILTERS}
TtlValues == {Docs(<<>>), Msg("v")}
TickSeconds == CACHE_TTL \div 3

InitTtl ==
  /\ cache = <<>>
  /\ props = {}
  /\ nextOid = 1
  /\ users = [u \in Users |-> [favorites |-> <<>>, recommendationsReceived |-> <<>>]]
  /\ last = [kind |-> "none", key |-> NoKey, val |-> Null, age |-> 0, known |-> FALSE]
  /\ nreq = 0
  /\ origin = {}
  /\ fresh = {}
  /\ probe = NoProbe
  /\ age = <<>>
  /\ inflight = <<>>

CacheSet ==
  /\ nreq < MaxTtlCalls
  /\ \E key \in TtlKeys, value \in TtlValues :
       LET r == CacheService_set(World(NoOutage, TRUE, NoOrder), key, value)
       IN /\ cache' = r.w.cache
          /\ age' = [k \in DOMAIN age \cup {key} |-> IF k = key THEN 0 ELSE age[k]]
          /\ last' = [kind |-> "CacheService.set", key |-> key, val |-> value,
                      age |-> 0, known |-> TRUE]
  /\ nreq' = nreq + 1
  /\ UNCHANGED <<props, nextOid, users, origin, fresh, probe, inflight>>

CacheRead ==
  /\ nreq < MaxTtlCalls
  /\ \E key \in TtlKeys :
       LET r == CacheService_get(World(NoOutage, TRUE, NoOrder), key)
       IN last' = [kind |-> "CacheService.get", key |-> key, val |-> r.val,
                   age |-> IF key \in DOMAIN age THEN age[key] ELSE 0,
                   known |-> key \in DOMAIN age]
  /\ nreq' = nreq + 1
  /\ UNCHANGED <<props, nextOid, users, cache, origin, fresh, probe, age, inflight>>

\* TickSeconds pass
Tick ==
  /\ cache # <<>>
  /\ cache' = [k \in {x \in DOMAIN cache : cache[x].ex > TickSeconds} |->
                 [cache[k] EXCEPT !.ex = @ - TickSeconds]]
  /\ age' = [k \in DOMAIN age |->
               IF age[k] + TickSeconds < CACHE_TTL THEN age[k] + TickSeconds ELSE CACHE_TTL]
  /\ UNCHANGED <<props, nextOid, users, last, nreq, origin, fresh, probe, inflight>>

NextTtl == CacheSet \/ CacheRead \/ Tick
SpecTtl == InitTtl /\ [][NextTtl]_vars

(***************************************************************************)
(* searchProperties on its own.  The collection starts as some sequence of *)
(* createProperty requests by u1 left it, the cache empty; every request   *)
(* is a search, over queries that exercise each constraint the model       *)
(* carries, pagination and sorting.                                        *)
(***************************************************************************)
SeedOrders ==
  UNION {{bodies \in [1..n -> CreateBodies] :
            \A i, j \in 1..n : bodies[i].propertyId = bodies[j].propertyId => i = j} :
         n \in 0..MaxDocs}

RECURSIVE Seeded(_)
Seeded(bodies) ==
  IF bodies = <<>> THEN [props |-> {}, nextOid |-> 1]
  ELSE LET before == Seeded(SubSeq(bodies, 1, Len(bodies) - 1))
           w == [props |-> before.props, nextOid |-> before.nextOid,
                 users |-> [u \in Users |-> [favorites |-> <<>>,
                                             recommendationsReceived |-> <<>>]],
                 cache |-> <<>>, fail |-> NoOutage, dbOk |-> TRUE, tb |-> NoOrder,
                 ops |-> <<>>]
           r == createProperty(w, "u1", bodies[Len(bodies)])
       IN [props |-> r.w.props, nextOid |-> r.w.nextOid]

InitSeeded ==
  /\ \E bodies \in SeedOrders :
       /\ props = Seeded(bodies).props
       /\ nextOid = Seeded(bodies).nextOid
  /\ users = [u \in Users |-> [favorites |-> <<>>, recommendationsReceived |-> <<>>]]
  /\ cache = <<>>
  /\ last = [kind |-> "none", user |-> NoUser, id |-> "", query |-> <<>>,
             key |-> NoKey, fail |-> NoOutage, wasFresh |-> FALSE, ops |-> <<>>,
             resp |-> [status |-> 0, body |-> Null]]
  /\ nreq = 0
  /\ origin = {[oid |-> d.oid, createdBy |-> d.createdBy, propertyId |-> d.propertyId] :
                 d \in props}
  /\ fresh = {}
  /\ probe = NoProbe
  /\ age = [k \in DOMAIN cache |-> 0]
  /\ inflight = <<>>

SearchQueries ==
  { <<>>,
    << <<"isVerified", "true">> >>,
    << <<"isVerified", "false">> >>,
    << <<"isVerified", "maybe">> >>,
    << <<"minPrice", "150">> >>,
    << <<"maxPrice", "150">> >>,
    << <<"minPrice", "abc">> >>,
    << <<"minPrice", "150abc">> >>,
    << <<"type", "Flat">> >>,
    << <<"amenities", "pool">> >>,
    << <<"amenities", "gym">> >>,
    << <<"amenities", "pool|gym">> >>,
    << <<"amenities", "pool|gym">>, <<"maxPrice", "150">> >>,
    << <<"tags", "sea">> >>,
    << <<"tags", "sea|view">> >>,
    << <<"limit", "1">> >>,
    << <<"page", "2">>, <<"limit", "1">> >>,
    << <<"page", "2">> >>,
    << <<"limit", "2">> >>,
    << <<"page", "0">> >>,
    << <<"page", "-1">>, <<"limit", "1">> >>,
    << <<"limit", "0">> >>,
    << <<"limit", "-1">> >>,
    << <<"sortOrder", "desc">> >>,
    << <<"sortBy", "type">> >>,
    << <<"sortBy", "type">>, <<"sortOrder", "desc">> >> }

Search ==
  \E query \in SearchQueries, tb \in TieBreaks(props) :
    Handle("searchProperties", NoUser, "", query, KEY_SEARCH(Query_stringify(query)),
           NoOutage, MaxSearchRequests,
           searchProperties(World(NoOutage, TRUE, tb), query))

SpecSearch == InitSeeded /\ [][Search]_vars

(***************************************************************************)
(* Sorted searches between price updates by the owner, from the same       *)
(* starting collections.                                                   *)
(***************************************************************************)
SortQueries ==
  { <<>>,
    << <<"sortBy", "price">>, <<"sortOrder", "desc">> >>,
    << <<"sortBy", "price">>, <<"sortOrder", "asc">> >> }
RepricedTo == 500

SortedSearch ==
  \E query \in SortQueries, tb \in TieBreaks(props) :
    Handle("searchProperties", NoUser, "", query, KEY_SEARCH(Query_stringify(query)),
           NoOutage, MaxSortRequests,
           searchProperties(World(NoOutage, TRUE, tb), query))

Reprice ==
  \E id \in PropIds :
    Handle("updateProperty", "u1", id, <<>>, NoKey, NoOutage, MaxSortRequests,
           updateProperty(World(NoOutage, TRUE, NoOrder), "u1", id, [price |-> RepricedTo]))

NextSort == SortedSearch \/ Reprice
SpecSort == InitSeeded /\ [][NextSort]_vars

(***************************************************************************)
(* Writes during which single Redis calls fail.  From the collections the  *)
(* creates by u1 leave, reads over a working transport fill the cache, and *)
(* u1 writes while the first call, the second call, or every call of the   *)
(* request fails.                                                          *)
(***************************************************************************)
FlakyFails == {{1}, {2}, Outage}

WarmRead ==
  \/ \E tb \in TieBreaks(props) :
       Handle("getAllProperties", NoUser, "", <<>>, KEY_PROPERTIES, NoOutage, MaxFlakyRequests,
              getAllProperties(World(NoOutage, TRUE, tb)))
  \/ \E id \in PropIds :
       Handle("getPropertyById", NoUser, id, <<>>, KEY_PROPERTY(id), NoOutage, MaxFlakyRequests,
              getPropertyById(World(NoOutage, TRUE, NoOrder), id))
  \/ \E tb \in TieBreaks(props) :
       Handle("searchProperties", NoUser, "", <<>>, KEY_SEARCH(Query_stringify(<<>>)),
              NoOutage, MaxFlakyRequests,
              searchProperties(World(NoOutage, TRUE, tb), <<>>))
  \/ \E tb \in TieBreaks(props) :
       Handle("getFavorites", "u1", "", <<>>, KEY_USER_FAVORITES("u1"), NoOutage,
              MaxFlakyRequests, getFavorites(World(NoOutage, TRUE, tb), "u1"))
  \/ Handle("getRecommendations", "u2", "", <<>>, KEY_USER_RECOMMENDATIONS("u2"), NoOutage,
            MaxFlakyRequests, getRecommendations(World(NoOutage, TRUE, NoOrder), "u2"))

FlakyListingWrite ==
  \E fail \in FlakyFails :
    \/ \E body \in CreateBodies :
         /\ nextOid <= MaxDocs
         /\ Handle("createProperty", "u1", body.propertyId, <<>>, NoKey, fail, MaxFlakyRequests,
                   createProperty(World(fail, TRUE, NoOrder), "u1", body))
    \/ \E id \in PropIds :
         Handle("updateProperty", "u1", id, <<>>, NoKey, fail, MaxFlakyRequests,
                updateProperty(World(fail, TRUE, NoOrder), "u1", id, [price |-> RepricedTo]))
    \/ \E id \in PropIds :
         Handle("deleteProperty", "u1", id, <<>>, NoKey, fail, MaxFlakyRequests,
                deleteProperty(World(fail, TRUE, NoOrder), "u1", id))

FlakyUserWrite ==
  \E fail \in FlakyFails, id \in PropIds :
    \/ Handle("addFavorite", "u1", id, <<>>, NoKey, fail, MaxFlakyRequests,
              addFavorite(World(fail, TRUE, NoOrder), "u1", id))
    \/ Handle("removeFavorite", "u1", id, <<>>, NoKey, fail, MaxFlakyRequests,
              removeFavorite(World(fail, TRUE, NoOrder), "u1", id))
    \/ Handle("recommendProperty", "u1", id, <<>>, NoKey, fail, MaxFlakyRequests,
              recommendProperty(World(fail, TRUE, NoOrder), "u1", id, Email["u2"]))

NextFlaky == WarmRead \/ FlakyListingWrite \/ FlakyUserWrite
SpecFlaky == InitSeeded /\ [][NextFlaky]_vars

(***************************************************************************)
(* The per-user entries.  From the collections the creates by u1 leave:    *)
(* favorites and recommendations are written and read by every caller,     *)
(* listings are updated and deleted, entries expire.                       *)
(***************************************************************************)
UserKeyRead ==
  /\ nreq < MaxUserKeyRequests
  /\ \E user \in Users :
       \/ \E tb \in TieBreaks(props) :
            Handle("getFavorites", user, "", <<>>, KEY_USER_FAVORITES(user), NoOutage,
                   MaxUserKeyRequests, getFavorites(World(NoOutage, TRUE, tb), user))
       \/ Handle("getRecommendations", user, "", <<>>, KEY_USER_RECOMMENDATIONS(user),
                 NoOutage, MaxUserKeyRequests,
                 getRecommendations(World(NoOutage, TRUE, NoOrder), user))

UserKeyWrite ==
  /\ nreq < MaxUserKeyRequests
  /\ \E user \in Users, id \in PropIds :
       \/ Handle("addFavorite", user, id, <<>>, NoKey, NoOutage, MaxUserKeyRequests,
                 addFavorite(World(NoOutage, TRUE, NoOrder), user, id))
       \/ Handle("removeFavorite", user, id, <<>>, NoKey, NoOutage, MaxUserKeyRequests,
                 removeFavorite(World(NoOutage, TRUE, NoOrder), user, id))
       \/ Handle("recommendProperty", "u1", id, <<>>, NoKey, NoOutage, MaxUserKeyRequests,
                 recommendProperty(World(NoOutage, TRUE, NoOrder), "u1", id, Email[user]))

ListingChange ==
  /\ nreq < MaxUserKeyRequests
  /\ \E id \in PropIds :
       \/ Handle("updateProperty", "u1", id, <<>>, NoKey, NoOutage, MaxUserKeyRequests,
                 updateProperty(World(NoOutage, TRUE, NoOrder), "u1", id,
                                [price |-> RepricedTo]))
       \/ Handle("deleteProperty", "u1", id, <<>>, NoKey, NoOutage, MaxUserKeyRequests,
                 deleteProperty(World(NoOutage, TRUE, NoOrder), "u1", id))

NextUserKeys == UserKeyRead \/ UserKeyWrite \/ ListingChange \/ Expire
SpecUserKeys == InitSeeded /\ [][NextUserKeys]_vars

(***************************************************************************)
(* Requests handled concurrently.  Node runs a handler up to its next      *)
(* await and then turns to another request, so one step of a request is    *)
(* one awaited Redis or MongoDB call together with the statements that     *)
(* follow it up to the next await; the steps of the requests in flight     *)
(* interleave in every order.  A request is the record of its inputs, the  *)
(* call it awaits next (pc; todo for the calls of a Promise.all, which the *)
(* servers execute in any order), its local variables, its response and    *)
(* its operation log.  Callers are authenticated.                          *)
(***************************************************************************)
NoOptions == [types |-> {}, amenities |-> {}, tags |-> {}]
Request(kind, user, id, query, body, pc) ==
  [kind |-> kind, user |-> user, id |-> id, query |-> query, body |-> body,
   pc |-> pc, todo |-> {}, doc |-> NoDoc, found |-> <<>>, total |-> 0,
   opts |-> NoOptions, keys |-> {}, left |-> {}, ops |-> <<>>,
   resp |-> [status |-> 0, body |-> Null]]

\* the request after a call: at its next await, or answered
Goto(r, w, pc) == [r |-> [r EXCEPT !.pc = pc, !.ops = @ \o w.ops], w |-> w]
Finish(r, w, status, body) ==
  [r |-> [r EXCEPT !.pc = "done", !.ops = @ \o w.ops,
                   !.resp = [status |-> status, body |-> body]],
   w |-> w]

\* the two calls of CacheService.delByPattern: redisClient.keys(pattern) and,
\* when it returned keys, redisClient.del(...keys)
CacheService_delByPattern_keys(w, pattern) ==
  LET keys == {k \in DOMAIN w.cache : GlobMatch(pattern, k)}
  IN [w |-> Log(w, Op("redis", "KEYS", pattern, keys, TRUE)), keys |-> keys]

\* (variant) a bulk delete that removes whatever matches the pattern by now
CacheService_delByPattern_rescan(w, pattern, keys) ==
  LET gone == {k \in DOMAIN w.cache : GlobMatch(pattern, k)}
  IN Log([w EXCEPT !.cache = Without(@, gone)], Op("redis", "DEL", pattern, gone, TRUE))

CacheService_delByPattern_del(w, pattern, keys) ==
  LET gone == keys \cap DOMAIN w.cache
  IN Log([w EXCEPT !.cache = Without(@, gone)], Op("redis", "DEL", pattern, gone, TRUE))

\* the invalidation of a listing write, one call at a time; left records the
\* keys matching the pattern right after a bulk delete
Invalidate(r, w) ==
  CASE r.pc = "del" -> Goto(r, CacheService_del(w, KEY_PROPERTY(r.id)).w, "scan1")
    [] r.pc = "scan1" ->
         LET k == CacheService_delByPattern_keys(w, PATTERN_PROPERTIES)
         IN IF Cardinality(k.keys) > 0
              THEN Goto([r EXCEPT !.keys = k.keys], k.w, "bulk1")
            ELSE Goto(r, k.w, "scan2")
    [] r.pc = "bulk1" ->
         LET w1 == CacheService_delByPattern_del(w, PATTERN_PROPERTIES, r.keys)
         IN Goto([r EXCEPT !.left = {x \in DOMAIN w1.cache : GlobMatch(PATTERN_PROPERTIES, x)}],
                 w1, "scan2")
    [] r.pc = "scan2" ->
         LET k == CacheService_delByPattern_keys(w, PATTERN_SEARCH)
         IN IF Cardinality(k.keys) > 0
              THEN Goto([r EXCEPT !.keys = k.keys], k.w, "bulk2")
            ELSE Finish(r, k.w, r.resp.status, r.resp.body)
    [] r.pc = "bulk2" ->
         LET w1 == CacheService_delByPattern_del(w, PATTERN_SEARCH, r.keys)
         IN Finish([r EXCEPT !.left = {x \in DOMAIN w1.cache : GlobMatch(PATTERN_SEARCH, x)}],
                   w1, r.resp.status, r.resp.body)

\* delByPattern on its own; r.query holds the pattern
CacheService_delByPattern_step(r, w) ==
  CASE r.pc = "keys" ->
         LET k == CacheService_delByPattern_keys(w, r.query)
         IN IF Cardinality(k.keys) > 0
              THEN Goto([r EXCEPT !.keys = k.keys], k.w, "del")
            ELSE Finish(r, k.w, 0, Null)
    [] r.pc = "del" ->
         Finish(r, CacheService_delByPattern_del(w, r.query, r.keys), 0, Null)

Answering(r, status, body) == [r EXCEPT !.resp = [status |-> status, body |-> body]]

getPropertyById_step(r, w) ==
  CASE r.pc = "get" ->
         LET g == CacheService_get(w, KEY_PROPERTY(r.id))
         IN IF Truthy(g.val) THEN Finish(r, g.w, 200, g.val) ELSE Goto(r, g.w, "findOne")
    [] r.pc = "findOne" ->
         LET f == Property_findOne(w, r.id)
         IN IF ~f.found THEN Finish(r, f.w, 404, Msg("Property not found"))
            ELSE Goto([r EXCEPT !.doc = f.doc], f.w, "set")
    [] r.pc = "set" ->
         Finish(r, CacheService_set(w, KEY_PROPERTY(r.id), Doc(r.doc)).w, 200, Doc(r.doc))

updateProperty_step(r, w) ==
  CASE r.pc = "findOne" ->
         LET f == Property_findOne(w, r.id)
         IN IF ~f.found THEN Finish(r, f.w, 404, Msg("Property not found"))
            ELSE IF f.doc.createdBy # r.user
              THEN Finish(r, f.w, 403, Msg("Not allowed to update this property"))
            ELSE Goto([r EXCEPT !.doc = f.doc], f.w, "findOneAndUpdate")
    [] r.pc = "findOneAndUpdate" ->
         LET u == Property_findOneAndUpdate(w, r.id, r.body)
         IN IF u.raised
              THEN Finish(r, u.w, 500, J("object", [error |-> "Failed to update property"]))
            ELSE Goto(Answering(r, 200, IF u.found THEN Doc(u.doc) ELSE Null), u.w, "del")
    [] OTHER -> Invalidate(r, w)

deleteProperty_step(r, w) ==
  CASE r.pc = "findOne" ->
         LET f == Property_findOne(w, r.id)
         IN IF ~f.found THEN Finish(r, f.w, 404, Msg("Property not found"))
            ELSE IF f.doc.createdBy # r.user
              THEN Finish(r, f.w, 403, Msg("Not allowed to delete this property"))
            ELSE Goto([r EXCEPT !.doc = f.doc], f.w, "deleteOne")
    [] r.pc = "deleteOne" ->
         Goto(Answering(r, 200, Msg("Property deleted")), Property_deleteOne(w, r.doc).w, "del")
    [] OTHER -> Invalidate(r, w)

createProperty_step(r, w) ==
  CASE r.pc = "create" ->
         LET c == Property_create(w, [r.body EXCEPT !.createdBy = r.user])
         IN IF c.raised
              THEN Finish(r, c.w, 500, J("object", [error |-> "Failed to create property"]))
            ELSE Goto(Answering(r, 201, Doc(c.doc)), c.w, "scan1")
    [] OTHER -> Invalidate(r, w)

\* what searchProperties derives from req.query before it queries
SearchPlan(query) ==
  LET page == OrDefault(query, "page", "1")
      limit == OrDefault(query, "limit", "10")
      sortOrder == OrDefault(query, "sortOrder", "asc")
      pageNum == parseInt(page).n
      limitNum == parseInt(limit).n
      skip == (pageNum - 1) * limitNum
  IN [pageNum |-> pageNum, limitNum |-> limitNum, skip |-> skip,
      sortBy |-> OrDefault(query, "sortBy", "price"),
      direction |-> IF sortOrder = "asc" THEN 1 ELSE 0 - 1,
      rejected |-> \/ FilterCastFails(query)
                   \/ parseInt(page).nan \/ parseInt(limit).nan
                   \/ skip < 0]

\* the result searchProperties builds from what its queries answered
SearchResult(r) ==
  LET plan == SearchPlan(r.query)
  IN J("object",
       [success |-> TRUE,
        data |-> [properties |-> r.found,
                  pagination |-> [total |-> r.total, page |-> plan.pageNum,
                                  limit |-> plan.limitNum,
                                  pages |-> Pages(r.total, plan.limitNum)],
                  filterOptions |-> r.opts]])

\* the request once call q of its Promise.all has been answered
Answered(r, q, next, then) ==
  IF r.todo = {q} THEN [r EXCEPT !.pc = next, !.todo = then]
  ELSE [r EXCEPT !.todo = @ \ {q}]

\* q: the call of the pending Promise.all that is executed in this step
searchProperties_step(r, w, q) ==
  LET cacheKey == KEY_SEARCH(Query_stringify(r.query))
      plan == SearchPlan(r.query)
  IN
  CASE r.pc = "get" ->
         LET g == CacheService_get(w, cacheKey)
         IN IF Truthy(g.val) THEN Finish(r, g.w, 200, g.val)
            ELSE Goto([r EXCEPT !.todo = {"find", "count"}], g.w, "query")
    [] r.pc = "query" ->
         IF plan.rejected
           THEN Finish(r, Log(w, Op("mongo", q, <<"Property">>, {}, FALSE)), 500,
                       J("object", [error |-> "Error searching properties"]))
         ELSE LET w1 == Log(w, Op("mongo", q, <<"Property">>, {}, TRUE))
                  r1 == IF q = "find"
                          THEN [r EXCEPT !.found =
                                  Page(Property_findSorted(w1, r.query, plan.sortBy,
                                                           plan.direction),
                                       plan.skip, plan.limitNum)]
                        ELSE [r EXCEPT !.total =
                                Cardinality({d \in w1.props : Filter(r.query, d)})]
              IN Goto(Answered(r1, q, "options", {}), w1,
                      Answered(r1, q, "options", {}).pc)
    \* the distinct queries of getFilterOptions, answered on one state of the
    \* collection
    [] r.pc = "options" ->
         LET w1 == Log(w, Op("mongo", "distinct", <<"Property">>, {}, TRUE))
         IN Goto([r EXCEPT !.opts = getFilterOptions(w1)], w1, "set")
    [] r.pc = "set" ->
         Finish(r, CacheService_set(w, cacheKey, SearchResult(r)).w, 200, SearchResult(r))

\* userDoc.favorites.push(id) followed by userDoc.save(): Mongoose sends the
\* push as an atomic $push, which MongoDB applies to the array as stored
User_push(w, userId, id) ==
  Log([w EXCEPT !.users[userId].favorites = Append(@, id)],
      Op("mongo", "save", <<"User", userId>>, {}, TRUE))

addFavorite_step(r, w) ==
  CASE r.pc = "findOne" ->
         LET f == Property_findOne(w, r.id)
         IN IF ~f.found THEN Finish(r, f.w, 404, Msg("Property not found"))
            ELSE Goto([r EXCEPT !.doc = f.doc], f.w, "findById")
    [] r.pc = "findById" ->
         LET w1 == Log(w, Op("mongo", "findById", <<"User", r.user>>, {}, TRUE))
         IN IF r.user \notin DOMAIN w1.users THEN Finish(r, w1, 404, Msg("User not found"))
            ELSE IF Includes(w1.users[r.user].favorites, r.doc.propertyId)
              THEN Finish(r, w1, 400, Msg("Property already in favorites"))
            ELSE Goto(r, w1, "save")
    [] r.pc = "save" -> Goto(r, User_push(w, r.user, r.doc.propertyId), "del")
    [] r.pc = "del" ->
         Finish(r, CacheService_del(w, KEY_USER_FAVORITES(r.user)).w, 200,
                Msg("Property added to favorites"))

\* one call of a request in flight, and what it leaves
Took(i, o) ==
  /\ props' = o.w.props
  /\ nextOid' = o.w.nextOid
  /\ users' = o.w.users
  /\ cache' = o.w.cache
  /\ age' = SinceSet(age, o.w.cache, o.w.ops)
  /\ origin' = origin \cup
       {[oid |-> d.oid, createdBy |-> d.createdBy, propertyId |-> d.propertyId] :
          d \in {e \in o.w.props : e.oid >= nextOid}}
  /\ IF o.r.pc = "done"
       THEN /\ inflight' = [j \in 1..(Len(inflight) - 1) |->
                              IF j < i THEN inflight[j] ELSE inflight[j + 1]]
            /\ nreq' = nreq + 1
            /\ last' = [kind |-> o.r.kind, user |-> o.r.user, id |-> o.r.id,
                        query |-> o.r.query, key |-> NoKey, fail |-> NoOutage,
                        wasFresh |-> FALSE, ops |-> o.r.ops, resp |-> o.r.resp]
     ELSE /\ inflight' = [inflight EXCEPT ![i] = o.r]
          /\ UNCHANGED <<last, nreq>>
  /\ UNCHANGED <<fresh, probe>>

Arrived(r) ==
  /\ inflight' = Append(inflight, r)
  /\ UNCHANGED <<props, nextOid, users, cache, last, nreq, origin, fresh, probe, age>>

(***************************************************************************)
(* Lookups of a listing racing with updates and deletes of it by its       *)
(* owner, from the collections the creates by u1 leave.                    *)
(***************************************************************************)
ArriveRace ==
  /\ nreq + Len(inflight) < MaxRaceRequests
  /\ \E id \in PropIds :
       \/ Arrived(Request("getPropertyById", NoUser, id, <<>>, <<>>, "get"))
       \/ Arrived(Request("updateProperty", "u1", id, <<>>, [price |-> RepricedTo], "findOne"))
       \/ Arrived(Request("deleteProperty", "u1", id, <<>>, <<>>, "findOne"))

LookupStep ==
  /\ inflight # <<>>
  /\ \E i \in 1..Len(inflight) :
       /\ inflight[i].kind = "getPropertyById"
       /\ Took(i, getPropertyById_step(inflight[i], World(NoOutage, TRUE, NoOrder)))

ListingWriteStep ==
  /\ inflight # <<>>
  /\ \E i \in 1..Len(inflight) :
       \/ /\ inflight[i].kind = "updateProperty"
          /\ Took(i, updateProperty_step(inflight[i], World(NoOutage, TRUE, NoOrder)))
       \/ /\ inflight[i].kind = "deleteProperty"
          /\ Took(i, deleteProperty_step(inflight[i], World(NoOutage, TRUE, NoOrder)))

NextRace == ArriveRace \/ LookupStep \/ ListingWriteStep
SpecRace == InitSeeded /\ [][NextRace]_vars

(***************************************************************************)
(* CacheService.delByPattern called concurrently with CacheService.set,    *)
(* on an empty cache and the keys the controllers use.                     *)
(***************************************************************************)
Patterns == {PATTERN_PROPERTIES, PATTERN_SEARCH}
PatternKeys ==
  {KEY_PROPERTIES, KEY_FILTERS, KEY_SEARCH(Query_stringify(<<>>)),
   KEY_SEARCH(Query_stringify(<< <<"sortOrder", "desc">> >>))}

ArrivePattern ==
  /\ nreq + Len(inflight) < MaxPatternCalls
  /\ \E pattern \in Patterns :
       Arrived(Request("delByPattern", NoUser, "", pattern, <<>>, "keys"))

PatternStep ==
  /\ inflight # <<>>
  /\ \E i \in 1..Len(inflight) :
       Took(i, CacheService_delByPattern_step(inflight[i], World(NoOutage, TRUE, NoOrder)))

SetKey ==
  /\ nreq + Len(inflight) < MaxPatternCalls
  /\ \E key \in PatternKeys, value \in TtlValues :
       LET r == CacheService_set(World(NoOutage, TRUE, NoOrder), key, value)
       IN /\ cache' = r.w.cache
          /\ age' = SinceSet(age, r.w.cache, r.w.ops)
          /\ last' = [kind |-> "CacheService.set", user |-> NoUser, id |-> "",
                      query |-> <<>>, key |-> key, fail |-> NoOutage,
                      wasFresh |-> FALSE, ops |-> r.w.ops,
                      resp |-> [status |-> 0, body |-> Null]]
  /\ nreq' = nreq + 1
  /\ UNCHANGED <<props, nextOid, users, origin, fresh, probe, inflight>>

NextPattern == ArrivePattern \/ PatternStep \/ SetKey
SpecPattern == Init /\ [][NextPattern]_vars

(***************************************************************************)
(* Searches racing with listing creates and deletes by u1.  The cache is   *)
(* empty or holds the result of one earlier search.                        *)
(***************************************************************************)
RaceQueries == {<<>>, << <<"sortOrder", "desc">> >>}
Pending(r) == IF r.todo = {} THEN {"none"} ELSE r.todo
Orders(q) == IF q = "find" THEN TieBreaks(props) ELSE {NoOrder}
Creating == Cardinality({i \in 1..Len(inflight) : inflight[i].kind = "createProperty"})

InitSearchRace ==
  /\ \E bodies \in SeedOrders :
       /\ props = Seeded(bodies).props
       /\ nextOid = Seeded(bodies).nextOid
  /\ users = [u \in Users |-> [favorites |-> <<>>, recommendationsReceived |-> <<>>]]
  /\ \E warm \in BOOLEAN, query \in RaceQueries, tb \in TieBreaks(props) :
       cache = IF warm
                 THEN searchProperties([props |-> props, nextOid |-> nextOid, users |-> users,
                                        cache |-> <<>>, fail |-> NoOutage, dbOk |-> TRUE,
                                        tb |-> tb, ops |-> <<>>], query).w.cache
               ELSE <<>>
  /\ last = [kind |-> "none", user |-> NoUser, id |-> "", query |-> <<>>,
             key |-> NoKey, fail |-> NoOutage, wasFresh |-> FALSE, ops |-> <<>>,
             resp |-> [status |-> 0, body |-> Null]]
  /\ nreq = 0
  /\ origin = {[oid |-> d.oid, createdBy |-> d.createdBy, propertyId |-> d.propertyId] :
                 d \in props}
  /\ fresh = {}
  /\ probe = NoProbe
  /\ age = [k \in DOMAIN cache |-> 0]
  /\ inflight = <<>>

ArriveSearchRace ==
  /\ nreq + Len(inflight) < MaxSearchRaceRequests
  /\ \/ \E query \in RaceQueries :
          Arrived(Request("searchProperties", NoUser, "", query, <<>>, "get"))
     \/ \E body \in CreateBodies :
          /\ nextOid + Creating <= MaxDocs
          /\ Arrived(Request("createProperty", "u1", body.propertyId, <<>>, body, "create"))
     \/ \E id \in PropIds :
          Arrived(Request("deleteProperty", "u1", id, <<>>, <<>>, "findOne"))

SearchStep ==
  /\ inflight # <<>>
  /\ \E i \in 1..Len(inflight) :
       /\ inflight[i].kind = "searchProperties"
       /\ \E q \in Pending(inflight[i]) : \E tb \in Orders(q) :
            Took(i, searchProperties_step(inflight[i], World(NoOutage, TRUE, tb), q))

CreateDeleteStep ==
  /\ inflight # <<>>
  /\ \E i \in 1..Len(inflight) :
       \/ /\ inflight[i].kind = "createProperty"
          /\ Took(i, createProperty_step(inflight[i], World(NoOutage, TRUE, NoOrder)))
       \/ /\ inflight[i].kind = "deleteProperty"
          /\ Took(i, deleteProperty_step(inflight[i], World(NoOutage, TRUE, NoOrder)))

NextSearchRace == ArriveSearchRace \/ SearchStep \/ CreateDeleteStep
SpecSearchRace == InitSearchRace /\ [][NextSearchRace]_vars

(***************************************************************************)
(* Searches running concurrently while nothing writes.                     *)
(***************************************************************************)
ArriveHerd ==
  /\ nreq + Len(inflight) < MaxHerdRequests
  /\ \E query \in RaceQueries :
       Arrived(Request("searchProperties", NoUser, "", query, <<>>, "get"))

NextHerd == ArriveHerd \/ SearchStep
SpecHerd == InitSeeded /\ [][NextHerd]_vars

(***************************************************************************)
(* Favorite adds running concurrently.                                     *)
(***************************************************************************)
ArriveFavorite ==
  /\ nreq + Len(inflight) < MaxFavoriteRequests
  /\ \E user \in Users, id \in PropIds :
       Arrived(Request("addFavorite", user, id, <<>>, <<>>, "findOne"))

FavoriteStep ==
  /\ inflight # <<>>
  /\ \E i \in 1..Len(inflight) :
       /\ inflight[i].kind = "addFavorite"
       /\ Took(i, addFavorite_step(inflight[i], World(NoOutage, TRUE, NoOrder)))

NextFavorite == ArriveFavorite \/ FavoriteStep
SpecFavorite == InitSeeded /\ [][NextFavorite]_vars

(***************************************************************************)
(* What a read answers when it misses a working, empty cache: the answer   *)
(* computed from the collections as they are now.                          *)
(***************************************************************************)
ReadKinds ==
  {"getPropertyById", "getAllProperties", "searchProperties",
   "getFilterOptionsController", "getFavorites", "getRecommendations"}
ListingWrites == {"createProperty", "updateProperty", "deleteProperty"}

ColdWorld(tb) == [World(NoOutage, TRUE, tb) EXCEPT !.cache = <<>>]

ReadResponse(kind, user, id, query, w) ==
  CASE kind = "getPropertyById" -> getPropertyById(w, id).resp
    [] kind = "getAllProperties" -> getAllProperties(w).resp
    [] kind = "searchProperties" -> searchProperties(w, query).resp
    [] kind = "getFilterOptionsController" -> getFilterOptionsController(w).resp
    [] kind = "getFavorites" -> getFavorites(w, user).resp
    [] kind = "getRecommendations" -> getRecommendations(w, user).resp

MissResponses(kind, user, id, query) ==
  {ReadResponse(kind, user, id, query, ColdWorld(tb)) : tb \in TieBreaks(props)}

\* the answers a miss on a listing key would produce now
KeyAnswers(key) ==
  IF key[1] = "property" THEN MissResponses("getPropertyById", NoUser, key[2], <<>>)
  ELSE IF key = KEY_PROPERTIES THEN MissResponses("getAllProperties", NoUser, "", <<>>)
  ELSE UNION {MissResponses("searchProperties", NoUser, "", q) :
                q \in {x \in Queries : KEY_SEARCH(Query_stringify(x)) = key}}

ListingKeys == {k \in DOMAIN cache : k[1] \in {"property", "properties", "search"}}
Cached(key) == [status |-> 200, body |-> JSON_parse(cache[key].data)]

Succeeded == last.resp.status \in {200, 201}
ServedFromCache(ops) ==
  Len(ops) = 1 /\ ops[1].sys = "redis" /\ ops[1].op = "GET" /\ ops[1].keys # {}
Committed(op) ==
  op.sys = "mongo" /\ op.op \in {"insert", "update", "delete", "save"} /\ op.ok
Invalidates(op) == op.sys = "redis" /\ op.op \in {"DEL", "KEYS"}

(***************************************************************************)
(* C1.  After an update or delete of listing L has completed, the keys     *)
(* property:L, properties:all and every search:* key are absent; and in    *)
(* every state each entry under these keys is the answer the collections   *)
(* give now, so no later read returns data from before a mutation.         *)
(***************************************************************************)
C1_NoPreMutationData ==
  /\ (last.kind \in {"updateProperty", "deleteProperty"} /\ Succeeded) =>
        /\ KEY_PROPERTY(last.id) \notin DOMAIN cache
        /\ KEY_PROPERTIES \notin DOMAIN cache
        /\ \A k \in DOMAIN cache : k[1] # "search"
  /\ \A k \in ListingKeys : Cached(k) \in KeyAnswers(k)

\* an update has completed and removed an entry that was cached
C1_Witness ==
  /\ last.kind = "updateProperty" /\ Succeeded
  /\ \E i \in 1..Len(last.ops) :
       last.ops[i].op = "DEL" /\ KEY_PROPERTY(last.id) \in last.ops[i].keys

(***************************************************************************)
(* C2.  Search requests with the same parameters in a different order use  *)
(* the same cache key: once one of them has populated the cache, the key   *)
(* of every reordering is the populated key.                               *)
(***************************************************************************)
SameParameters(q1, q2) ==
  {q1[i] : i \in 1..Len(q1)} = {q2[i] : i \in 1..Len(q2)}

C2_OrderInsensitiveKey ==
  \A q1, q2 \in Queries :
    (SameParameters(q1, q2) /\ KEY_SEARCH(Query_stringify(q1)) \in DOMAIN cache)
      => KEY_SEARCH(Query_stringify(q2)) = KEY_SEARCH(Query_stringify(q1))

(***************************************************************************)
(* C3.  A lookup that finds no listing stores nothing in the cache, and    *)
(* when the identifier is created by the next request, the lookup after    *)
(* that returns the created listing.                                       *)
(***************************************************************************)
C3_NoNegativeEntry ==
  /\ (last.kind = "getPropertyById" /\ last.resp.status = 404) =>
        /\ \A i \in 1..Len(last.ops) : last.ops[i].op # "SET"
        /\ KEY_PROPERTY(last.id) \notin DOMAIN cache
  /\ probe.stage = 3 =>
        /\ last.kind = "getPropertyById" /\ last.id = probe.id
        /\ \E d \in props :
             /\ d.propertyId = probe.id /\ d.oid = nextOid - 1
             /\ last.resp = [status |-> 200, body |-> Doc(d)]

\* not found, then created, then looked up again
C3_Witness == probe.stage = 3

(***************************************************************************)
(* C4.  A read of a key that a miss has populated, with no write to a      *)
(* collection and no expiry of the key since, is served from the cache     *)
(* and returns what the collections hold now.                              *)
(***************************************************************************)
C4_HitReturnsCurrentValue ==
  last.wasFresh =>
    /\ last.kind \in ReadKinds
    /\ ServedFromCache(last.ops)
    /\ last.resp \in MissResponses(last.kind, last.user, last.id, last.query)

\* a listing read twice: the second read is the hit
C4_Witness ==
  /\ last.wasFresh /\ last.kind = "getPropertyById"
  /\ last.resp.status = 200

(***************************************************************************)
(* C5.  Within a request, every cache delete (by key or by pattern) comes  *)
(* after a committed write of that request: none precedes the write, none  *)
(* is issued by a rejected request or after a write that failed.           *)
(***************************************************************************)
C5_InvalidateAfterCommit ==
  \A i \in 1..Len(last.ops) :
    Invalidates(last.ops[i]) => \E j \in 1..(i - 1) : Committed(last.ops[j])

\* a favorite was added and the user's favorites key deleted
C5_Witness ==
  /\ last.kind = "addFavorite" /\ Succeeded
  /\ \E i \in 1..Len(last.ops) : Invalidates(last.ops[i])

SingleListingKeys(c) == {k \in DOMAIN c : k[1] = "property"}

C7_OutageDegradesToMiss ==
  (last.kind \in ReadKinds /\ last.fail = Outage) =>
     /\ last.resp \in MissResponses(last.kind, last.user, last.id, last.query)
     /\ last.resp.status # 500

\* a stored listing read during an outage
C7_Witness ==
  /\ last.kind = "getPropertyById" /\ last.fail = Outage
  /\ last.resp.status = 200

(***************************************************************************)
(* C8.  CacheService.get never raises: it returns the value the stored     *)
(* string encodes, and null when the key is missing, when the transport    *)
(* fails, or when the stored string is not JSON.                           *)
(***************************************************************************)
C8_GetNeverRaises ==
  last.kind = "CacheService.get" =>
    /\ ~last.raised
    /\ last.val =
         IF last.fail = Outage \/ last.key \notin DOMAIN cache THEN Null
         ELSE LET str == cache[last.key].data
              IN IF str.enc = "json" THEN str.val ELSE Null

\* get on a key whose string is not JSON, over a working transport
C8_Witness ==
  /\ last.kind = "CacheService.get" /\ last.fail = NoOutage
  /\ last.key \in DOMAIN cache /\ cache[last.key].data = NotJSON

(***************************************************************************)
(* C9.  updateProperty and deleteProperty change the Property collection   *)
(* only for the user the collection records as the listing's owner; for    *)
(* another authenticated user the answer is 403 and collections and cache  *)
(* stay as they were.  The handlers never read the cache.                  *)
(***************************************************************************)
C9_OwnerOnly ==
  [][(nreq' = nreq + 1 /\ last'.kind \in {"updateProperty", "deleteProperty"}) =>
       LET hit == {d \in props : d.propertyId = last'.id}
       IN /\ props' # props => \E d \in hit : d.createdBy = last'.user
          /\ (hit # {} /\ last'.user # NoUser /\ \A d \in hit : d.createdBy # last'.user)
               => /\ last'.resp.status = 403
                  /\ props' = props /\ users' = users /\ cache' = cache
          /\ \A i \in 1..Len(last'.ops) : last'.ops[i].op # "GET"]_vars

\* another user's update was rejected
C9_Witness ==
  /\ last.kind = "updateProperty" /\ last.resp.status = 403
  /\ \E d \in props : d.propertyId = last.id /\ d.createdBy \in Users \ {last.user}

(***************************************************************************)
(* C10.  Every stored listing has the owner and the propertyId it was      *)
(* created with.                                                           *)
(***************************************************************************)
C10_OwnerAndIdStable ==
  \A d \in props :
    \E o \in origin :
      o.oid = d.oid /\ o.createdBy = d.createdBy /\ o.propertyId = d.propertyId

(***************************************************************************)
(* C11.  After an addFavorite or removeFavorite by user U has succeeded,   *)
(* U's favorites key is absent, and a getFavorites by U now answers with   *)
(* exactly the listings whose propertyId is in U's stored favorites.       *)
(***************************************************************************)
C11_FavoritesInvalidated ==
  (last.kind \in {"addFavorite", "removeFavorite"} /\ last.resp.status = 200) =>
    LET U == last.user
        stored == {d \in props : Includes(users[U].favorites, d.propertyId)}
    IN /\ KEY_USER_FAVORITES(U) \notin DOMAIN cache
       /\ \A tb \in TieBreaks(props) :
            LET r == getFavorites(World(NoOutage, TRUE, tb), U).resp
            IN /\ r.status = 200
               /\ r.body.k = "array"
               /\ Len(r.body.v) = Cardinality(stored)
               /\ Elements(r.body.v) = stored

\* an addFavorite that removed a cached favorites entry
C11_Witness ==
  /\ last.kind = "addFavorite" /\ last.resp.status = 200
  /\ \E i \in 1..Len(last.ops) :
       last.ops[i].op = "DEL" /\ last.ops[i].keys = {KEY_USER_FAVORITES(last.user)}
  /\ users[last.user].favorites # <<>>

(***************************************************************************)
(* C12.  After recommendProperty has written a recommendation to recipient *)
(* R, R's recommendations key is absent, a getRecommendations by R now     *)
(* answers with a list that includes the new recommendation, and the only  *)
(* key the request deleted is R's (not the recommender's).                 *)
(***************************************************************************)
SavedUsers(ops) ==
  {ops[i].arg[2] : i \in {n \in 1..Len(ops) : ops[n].sys = "mongo" /\ ops[n].op = "save" /\ ops[n].ok}}
Deleted(ops) ==
  {ops[i].arg : i \in {n \in 1..Len(ops) : ops[n].sys = "redis" /\ ops[n].op \in {"DEL", "KEYS"}}}

C12_RecipientKeyInvalidated ==
  (last.kind = "recommendProperty" /\ last.resp.status = 200) =>
    \E R \in Users :
      /\ SavedUsers(last.ops) = {R}
      /\ Deleted(last.ops) = {KEY_USER_RECOMMENDATIONS(R)}
      /\ KEY_USER_RECOMMENDATIONS(R) \notin DOMAIN cache
      /\ LET r == getRecommendations(World(NoOutage, TRUE, NoOrder), R).resp
         IN /\ r.status = 200
            /\ r.body.k = "array"
            /\ \E i \in 1..Len(r.body.v) :
                 /\ r.body.v[i].recommendedBy.oid = last.user
                 /\ r.body.v[i].property \in {Doc(d) : d \in {e \in props : e.propertyId = last.id}}

\* a recommendation to another user whose cached recommendations were removed
C12_Witness ==
  /\ last.kind = "recommendProperty" /\ last.resp.status = 200
  /\ SavedUsers(last.ops) # {last.user}
  /\ \E i \in 1..Len(last.ops) : last.ops[i].op = "DEL" /\ last.ops[i].keys # {}

(***************************************************************************)
(* C13.  A search whose query carries a numeric constraint that is not the *)
(* text of a number, or a boolean constraint that is neither 'true' nor    *)
(* 'false', is answered with a validation failure (400) and stores nothing *)
(* in the cache.                                                           *)
(***************************************************************************)
IsNumberText(s) ==
  LET first == IF Len(s) > 0 /\ Char(s, 1) \in {"-", "+"} THEN 2 ELSE 1
  IN first <= Len(s) /\ \A i \in first..Len(s) : IsDigit(Char(s, i))
Unparseable(query) ==
  \E i \in 1..Len(query) :
    \/ query[i][1] \in {"minPrice", "maxPrice"} /\ ~IsNumberText(query[i][2])
    \/ query[i][1] = "isVerified" /\ query[i][2] \notin {"true", "false"}

C13_UnparseableRejected ==
  (last.kind = "searchProperties" /\ Unparseable(last.query)) =>
    /\ last.resp.status = 400
    /\ \A i \in 1..Len(last.ops) : last.ops[i].op # "SET"

(***************************************************************************)
(* C14.  In a search whose page and limit are omitted or integers, the     *)
(* query sent to the store uses page 1 and limit 10 in place of an omitted *)
(* or non-positive value: its skip is (page - 1) * limit and never         *)
(* negative, its limit never below 1.                                      *)
(***************************************************************************)
Clamped(query, name, default) ==
  IF Has(query, name) /\ parseInt(Get(query, name)).n > 0
    THEN parseInt(Get(query, name)).n
    ELSE default

C14_PageLimitClamped ==
  (/\ last.kind = "searchProperties"
   /\ \A name \in {"page", "limit"} :
        Has(last.query, name) => IsNumberText(Get(last.query, name))) =>
    \A i \in 1..Len(last.ops) :
      last.ops[i].op = "find" =>
        LET skip == last.ops[i].arg[2]
            limit == last.ops[i].arg[3]
        IN /\ limit = Clamped(last.query, "limit", 10)
           /\ skip = (Clamped(last.query, "page", 1) - 1) * limit
           /\ skip >= 0
           /\ limit >= 1

(***************************************************************************)
(* C15.  A search with positive page and limit answers 200 with            *)
(* pagination.total the number of listings matching the filter,            *)
(* pagination.pages the ceiling of total / limit, and as listings those at *)
(* positions (page-1)*limit .. (page-1)*limit+limit-1 (counted from 0) of  *)
(* the sorted matches.  In particular total 25 with limit 10 gives 3       *)
(* pages, total 0 gives 0 pages, a limit above a non-empty total gives 1   *)
(* page, and page 2 with limit 10 returns items 10..19.                    *)
(***************************************************************************)
PageOf(query) == parseInt(OrDefault(query, "page", "1"))
LimitOf(query) == parseInt(OrDefault(query, "limit", "10"))
PositivePaging(query) ==
  /\ ~PageOf(query).nan /\ PageOf(query).n > 0
  /\ ~LimitOf(query).nan /\ LimitOf(query).n > 0
\* the least n with n * limit >= total
CeilingOf(total, limit) == CHOOSE n \in 0..total : n * limit >= total /\ (n = 0 \/ (n - 1) * limit < total)
Items == [i \in 1..25 |-> i - 1]

C15_Pagination ==
  /\ Ceil(25, 10) = 3
  /\ \A limit \in 1..30 : Ceil(0, limit) = 0
  /\ \A total \in 1..25 : \A limit \in total..30 : Ceil(total, limit) = 1
  /\ Page(Items, (2 - 1) * 10, 10) = [i \in 1..10 |-> 9 + i]
  /\ (/\ last.kind = "searchProperties"
      /\ PositivePaging(last.query)
      /\ ~FilterCastFails(last.query)) =>
       LET P == PageOf(last.query).n
           L == LimitOf(last.query).n
           matches == {d \in props : Filter(last.query, d)}
           total == Cardinality(matches)
           data == last.resp.body.v.data
           left == total - (P - 1) * L
       IN /\ last.resp.status = 200
          /\ data.pagination.total = total
          /\ data.pagination.pages = JNum(CeilingOf(total, L))
          /\ Len(data.properties) = (IF left < 0 THEN 0 ELSE IF left < L THEN left ELSE L)
          /\ \E tb \in TieBreaks(props) :
               LET sorted == Property_findSorted(World(NoOutage, TRUE, tb), last.query,
                                                 OrDefault(last.query, "sortBy", "price"),
                                                 IF OrDefault(last.query, "sortOrder", "asc") = "asc"
                                                   THEN 1 ELSE 0 - 1)
               IN \A i \in 1..Len(data.properties) :
                    data.properties[i] = sorted[(P - 1) * L + i]

\* the second page of one listing each, of two matching listings
C15_Witness ==
  /\ last.kind = "searchProperties" /\ last.resp.status = 200
  /\ PageOf(last.query).n = 2 /\ LimitOf(last.query).n = 1
  /\ last.resp.body.v.data.pagination.total = 2
  /\ Len(last.resp.body.v.data.properties) = 1

(***************************************************************************)
(* C16.  A search with amenities (or tags) given as a '|'-separated list,  *)
(* and default paging, returns exactly the listings that satisfy the other *)
(* constraints and whose amenities (or tags) contain every listed value.   *)
(***************************************************************************)
\* the values of a '|'-separated list: its maximal runs free of '|'
Listed(s) ==
  {SubSeq(s, i, j) : <<i, j>> \in
     {x \in (1..Len(s) + 1) \X (0..Len(s)) :
        /\ x[2] >= x[1] - 1
        /\ (x[1] = 1 \/ Char(s, x[1] - 1) = "|")
        /\ (x[2] = Len(s) \/ Char(s, x[2] + 1) = "|")
        /\ \A k \in x[1]..x[2] : Char(s, k) # "|"}}
ListedFor(query, name) == IF Given(query, name) THEN Listed(Get(query, name)) ELSE {}
OtherConstraints(query) ==
  SelectSeq(query, LAMBDA m : m[1] \notin {"amenities", "tags"})

C16_AllListedValues ==
  (/\ last.kind = "searchProperties"
   /\ Given(last.query, "amenities") \/ Given(last.query, "tags")
   /\ ~Has(last.query, "page") /\ ~Has(last.query, "limit")
   /\ ~FilterCastFails(last.query)) =>
    /\ last.resp.status = 200
    /\ Elements(last.resp.body.v.data.properties) =
         {d \in props :
            /\ Filter(OtherConstraints(last.query), d)
            /\ ListedFor(last.query, "amenities") \subseteq Elements(d.amenities)
            /\ ListedFor(last.query, "tags") \subseteq Elements(d.tags)}

\* pool|gym over a collection with a listing that has both and one that has
\* only pool: only the first is returned
C16_Witness ==
  /\ last.kind = "searchProperties" /\ last.resp.status = 200
  /\ Has(last.query, "amenities") /\ Get(last.query, "amenities") = "pool|gym"
  /\ \E d \in props : Elements(d.amenities) = {"pool"}
  /\ \E d \in props : Elements(d.amenities) = {"pool", "gym"}
  /\ Len(last.resp.body.v.data.properties) = 1

(***************************************************************************)
(* C17.  In every state a search answers with the listings ordered by the  *)
(* requested sort field in the requested direction (price, ascending when  *)
(* unspecified), computed from the prices the store holds now: with P1 at  *)
(* 100 and P2 at 200 a search by price descending returns [P2, P1], and    *)
(* once P1's price has been updated to 500 the same search returns         *)
(* [P1, P2].                                                               *)
(***************************************************************************)
ByPriceDesc == << <<"sortBy", "price">>, <<"sortOrder", "desc">> >>
OrderedQueries ==
  SortQueries \cup { << <<"sortBy", "type">> >>,
                     << <<"sortBy", "type">>, <<"sortOrder", "desc">> >> }
SearchedNow(query, tb) == searchProperties(World(NoOutage, TRUE, tb), query).resp
Ids(seq) == [i \in 1..Len(seq) |-> seq[i].propertyId]
PricesAre(p1, p2) ==
  /\ Cardinality(props) = 2
  /\ \E d \in props : d.propertyId = "P1" /\ d.price = p1
  /\ \E d \in props : d.propertyId = "P2" /\ d.price = p2

C17_SortedByCurrentValues ==
  \A tb \in TieBreaks(props) :
    /\ \A query \in OrderedQueries :
         LET r == SearchedNow(query, tb)
             listed == r.body.v.data.properties
             sortBy == OrDefault(query, "sortBy", "price")
             ascending == OrDefault(query, "sortOrder", "asc") = "asc"
         IN /\ r.status = 200
            /\ Len(listed) = Cardinality(props)
            /\ Elements(listed) = props
            /\ \A i \in 1..(Len(listed) - 1) :
                 IF ascending
                   THEN SortValue(listed[i], sortBy) <= SortValue(listed[i + 1], sortBy)
                   ELSE SortValue(listed[i], sortBy) >= SortValue(listed[i + 1], sortBy)
    /\ PricesAre(100, 200) =>
         Ids(SearchedNow(ByPriceDesc, tb).body.v.data.properties) = <<"P2", "P1">>
    /\ PricesAre(500, 200) =>
         Ids(SearchedNow(ByPriceDesc, tb).body.v.data.properties) = <<"P1", "P2">>

\* P1 repriced from 100 to 500 next to P2 at 200, by an update that removed
\* the cached result of the search by price descending
C17_Witness ==
  /\ last.kind = "updateProperty" /\ last.resp.status = 200 /\ last.id = "P1"
  /\ PricesAre(500, 200)
  /\ \E i \in 1..Len(last.ops) :
       /\ last.ops[i].op = "DEL"
       /\ KEY_SEARCH(Query_stringify(ByPriceDesc)) \in last.ops[i].keys

(***************************************************************************)
(* C18.  A create/update/delete listing, add/remove favorite or recommend  *)
(* request without an authenticated user is answered 401 having performed  *)
(* no store or cache operation: collections and cache are unchanged.       *)
(***************************************************************************)
AuthenticatedWrites ==
  {"createProperty", "updateProperty", "deleteProperty",
   "addFavorite", "removeFavorite", "recommendProperty"}

C18_UnauthenticatedRejected ==
  [][(/\ nreq' = nreq + 1
      /\ last'.kind \in AuthenticatedWrites
      /\ last'.user = NoUser) =>
       (/\ last'.resp.status = 401
        /\ last'.ops = <<>>
        /\ UNCHANGED <<props, nextOid, users, cache>>)]_vars

\* an update without a user, of a listing that exists
C18_Witness ==
  /\ last.kind = "updateProperty" /\ last.user = NoUser
  /\ last.resp.status = 401
  /\ \E d \in props : d.propertyId = last.id

(***************************************************************************)
(* C19.  When a cache invalidation step of a listing create/update/delete, *)
(* a favorite add/remove or a recommendation fails, the store keeps the    *)
(* request's mutation, every invalidation step of the request is still     *)
(* attempted, and the request answers with its normal success response.    *)
(***************************************************************************)
\* the invalidation steps a request started: the key of each del, the
\* pattern of each delByPattern
StepsAttempted(ops) ==
  LET steps == SelectSeq(ops, LAMBDA o :
                 /\ o.sys = "redis"
                 /\ o.op = "KEYS" \/ (o.op = "DEL" /\ o.arg[2] # "*"))
  IN [i \in 1..Len(steps) |-> steps[i].arg]
StepFailed(ops) ==
  \E i \in 1..Len(ops) : ops[i].sys = "redis" /\ ops[i].op \in {"DEL", "KEYS"} /\ ~ops[i].ok

C19_InvalidationFailureTolerated ==
  (last.kind \in AuthenticatedWrites /\ StepFailed(last.ops)) =>
    CASE last.kind = "createProperty" ->
           /\ last.resp.status = 201
           /\ \E d \in props : d.propertyId = last.id /\ d.createdBy = last.user
           /\ StepsAttempted(last.ops) = <<PATTERN_PROPERTIES, PATTERN_SEARCH>>
      [] last.kind = "updateProperty" ->
           /\ last.resp.status = 200
           /\ \E d \in props : d.propertyId = last.id /\ d.price = RepricedTo
           /\ StepsAttempted(last.ops) =
                <<KEY_PROPERTY(last.id), PATTERN_PROPERTIES, PATTERN_SEARCH>>
      [] last.kind = "deleteProperty" ->
           /\ last.resp.status = 200
           /\ ~\E d \in props : d.propertyId = last.id
           /\ StepsAttempted(last.ops) =
                <<KEY_PROPERTY(last.id), PATTERN_PROPERTIES, PATTERN_SEARCH>>
      [] last.kind = "addFavorite" ->
           /\ last.resp.status = 200
           /\ last.id \in Elements(users[last.user].favorites)
           /\ StepsAttempted(last.ops) = <<KEY_USER_FAVORITES(last.user)>>
      [] last.kind = "removeFavorite" ->
           /\ last.resp.status = 200
           /\ last.id \notin Elements(users[last.user].favorites)
           /\ StepsAttempted(last.ops) = <<KEY_USER_FAVORITES(last.user)>>
      [] last.kind = "recommendProperty" ->
           /\ last.resp.status = 200
           /\ [propertyId |-> last.id, recommendedBy |-> last.user]
                \in Elements(users["u2"].recommendationsReceived)
           /\ StepsAttempted(last.ops) = <<KEY_USER_RECOMMENDATIONS("u2")>>

\* an update whose first invalidation step failed and whose later step
\* removed a cached entry
C19_Witness ==
  /\ last.kind = "updateProperty" /\ last.fail = {1}
  /\ StepFailed(last.ops)
  /\ \E i \in 1..Len(last.ops) :
       last.ops[i].sys = "redis" /\ last.ops[i].op = "DEL" /\ last.ops[i].keys # {}

(***************************************************************************)
(* C20.  A listing create, update or delete leaves the entry under         *)
(* filters:all as it was: getFilterOptionsController keeps answering with  *)
(* the enumeration cached before the write, also when the write brought in *)
(* a new type, amenity or tag.                                             *)
(***************************************************************************)
FiltersServed == getFilterOptionsController(World(NoOutage, TRUE, NoOrder)).resp

ListReads == {"searchProperties", "getAllProperties", "getFavorites"}
EmptyAnswer(kind, body) ==
  IF kind = "searchProperties"
    THEN /\ body.k = "object"
         /\ "data" \in DOMAIN body.v
         /\ Len(body.v.data.properties) = 0
  ELSE body.k = "array" /\ Len(body.v) = 0

ReadNow(kind, user, query, tb) ==
  CASE kind = "searchProperties" -> searchProperties(World(NoOutage, TRUE, tb), query)
    [] kind = "getAllProperties" -> getAllProperties(World(NoOutage, TRUE, tb))
    [] kind = "getFavorites" -> getFavorites(World(NoOutage, TRUE, tb), user)

C22_EmptyResultCached ==
  (/\ last.kind \in ListReads
   /\ last.resp.status = 200
   /\ EmptyAnswer(last.kind, last.resp.body)) =>
     /\ ServedFromCache(last.ops) \/ Stored(last.ops, last.key)
     /\ last.wasFresh => ServedFromCache(last.ops)
     \* unless the entry has expired since
     /\ last.key \in DOMAIN cache =>
          /\ Cached(last.key) = last.resp
          /\ \A tb \in TieBreaks(props) :
               LET again == ReadNow(last.kind, last.user, last.query, tb)
               IN /\ ServedFromCache(again.w.ops)
                  /\ again.resp = last.resp

\* an empty search result was cached, and the same search was served from it
C22_Witness ==
  /\ last.kind = "searchProperties" /\ last.wasFresh
  /\ EmptyAnswer(last.kind, last.resp.body)
  /\ ServedFromCache(last.ops)

(***************************************************************************)
(* C27.  A listing update or delete leaves every user:<id>:favorites and   *)
(* user:<id>:recommendations entry as it was.  Such an entry goes away or  *)
(* changes only in a favorite add or remove by that user, in a             *)
(* recommendation saved to that user, or by expiry.                        *)
(***************************************************************************)
UserKeys(c) == {k \in DOMAIN c : k[1] = "user"}
Untouched(k) == k \in DOMAIN cache' /\ cache'[k] = cache[k]

C27_UserEntriesSurviveListingWrites ==
  [][\A k \in UserKeys(cache) :
       /\ (nreq' = nreq + 1 /\ last'.kind \in {"updateProperty", "deleteProperty"})
            => Untouched(k)
       /\ ~Untouched(k) =>
            \/ nreq' = nreq /\ DOMAIN cache' = DOMAIN cache \ {k}
            \/ /\ last'.kind \in {"addFavorite", "removeFavorite"}
               /\ k = KEY_USER_FAVORITES(last'.user)
            \/ /\ last'.kind = "recommendProperty"
               /\ k[3] = "recommendations"
               /\ k[2] \in SavedUsers(last'.ops)]_vars

\* a listing was updated while a cached favorites entry embeds its old data
C27_Witness ==
  /\ last.kind = "updateProperty" /\ Succeeded
  /\ \E u \in Users :
       /\ KEY_USER_FAVORITES(u) \in DOMAIN cache
       /\ \E d \in Elements(Cached(KEY_USER_FAVORITES(u)).body.v) :
            d.propertyId = last.id /\ d \notin props

(***************************************************************************)
(* C21.  An entry is in the cache exactly while less than CACHE_TTL (3600) *)
(* seconds have passed since the most recent set of its key, a set         *)
(* replacing the value and starting the time anew; so a get returns the    *)
(* value set last when it is younger than 3600 seconds, and null           *)
(* otherwise.                                                              *)
(***************************************************************************)
C21_ExpiresAfterTtl ==
  /\ \A k \in DOMAIN age : k \in DOMAIN cache <=> age[k] < CACHE_TTL
  /\ \A k \in DOMAIN cache : k \in DOMAIN age /\ cache[k].ex = CACHE_TTL - age[k]
  /\ last.kind = "CacheService.set" =>
       (last.key \in DOMAIN cache => cache[last.key].data = JSON_stringify(last.val))
  /\ last.kind = "CacheService.get" =>
       /\ (last.val # Null) <=> (last.known /\ last.age < CACHE_TTL)
       /\ (last.val # Null /\ last.key \in DOMAIN cache) =>
             last.val = JSON_parse(cache[last.key].data)

\* a get that found an entry gone 3600 seconds after it was set
C21_Witness ==
  /\ last.kind = "CacheService.get"
  /\ last.known /\ last.age = CACHE_TTL
  /\ last.val = Null

(***************************************************************************)
(* C23.  (as claimed) When the lookups, updates and deletes of a listing   *)
(* that ran concurrently have all completed, the key property:L is absent  *)
(* or holds the document the collection holds for L.                       *)
(***************************************************************************)
C23_NoStaleEntryAfterRace ==
  inflight = <<>> =>
    \A id \in PropIds :
      KEY_PROPERTY(id) \in DOMAIN cache =>
        \E d \in props : d.propertyId = id /\ Cached(KEY_PROPERTY(id)).body = Doc(d)

(***************************************************************************)
(* C24.  The bulk delete of delByPattern removes exactly the keys its scan *)
(* returned, as far as they are still there, and changes no other entry:   *)
(* a matching key set between the scan and the delete stays.  The scan     *)
(* changes nothing, and when it returns no key the call ends with no       *)
(* delete issued.                                                          *)
(***************************************************************************)
Left(i) ==
  /\ Len(inflight') = Len(inflight) - 1
  /\ \A j \in 1..Len(inflight') : inflight'[j] = inflight[IF j < i THEN j ELSE j + 1]
Moved(i) ==
  \/ Left(i)
  \/ Len(inflight') = Len(inflight) /\ inflight'[i] # inflight[i]
Matching(pattern, c) == {k \in DOMAIN c : GlobMatch(pattern, k)}

C24_DeletesTheScannedKeys ==
  [][\A i \in 1..Len(inflight) :
       LET r == inflight[i]
       IN /\ (r.pc = "del" /\ Moved(i)) =>
               /\ Left(i)
               /\ cache' = Without(cache, r.keys)
               /\ Len(last'.ops) = 2
               /\ last'.ops[2].op = "DEL" /\ last'.ops[2].keys = r.keys \cap DOMAIN cache
          /\ (r.pc = "keys" /\ Moved(i)) =>
               /\ cache' = cache
               /\ IF Matching(r.query, cache) = {}
                    THEN Left(i) /\ Len(last'.ops) = 1 /\ last'.ops[1].op = "KEYS"
                  ELSE /\ ~Left(i)
                       /\ inflight'[i].pc = "del"
                       /\ inflight'[i].keys = Matching(r.query, cache)]_vars

\* a delByPattern has returned whose delete removed the scanned key while a
\* matching key set after the scan is still there
C24_Witness ==
  /\ last.kind = "delByPattern"
  /\ Len(last.ops) = 2
  /\ last.ops[1].keys # {} /\ last.ops[2].keys = last.ops[1].keys
  /\ \E k \in DOMAIN cache : GlobMatch(last.query, k) /\ k \notin last.ops[1].keys

\* a delByPattern has returned after a scan that matched no key
C24_NothingMatched ==
  /\ last.kind = "delByPattern"
  /\ Len(last.ops) = 1
  /\ cache # <<>>

(***************************************************************************)
(* C25.  (as claimed) No user's favorites hold a listing id twice, also    *)
(* when adds of the same listing by the same user run concurrently; and an *)
(* add that was rejected with 400 saved nothing and deleted no cache key.  *)
(***************************************************************************)
C25_FavoritesDistinct ==
  /\ \A u \in Users :
       \A i, j \in 1..Len(users[u].favorites) :
         users[u].favorites[i] = users[u].favorites[j] => i = j
  /\ (last.kind = "addFavorite" /\ last.resp.status = 400) =>
       \A i \in 1..Len(last.ops) : ~Committed(last.ops[i]) /\ ~Invalidates(last.ops[i])

\* an add was rejected because the listing was a favorite already
C25_Rejected ==
  /\ last.kind = "addFavorite" /\ last.resp.status = 400
  /\ Includes(users[last.user].favorites, last.id)

(***************************************************************************)
(* C26.  (as claimed) In every search result in the cache, the total of    *)
(* the pagination and the page of listings describe one state of the       *)
(* collection, also when a create or delete runs concurrently: where the   *)
(* page is the first one and its limit is not reached, the total is the    *)
(* number of listings on the page.                                         *)
(***************************************************************************)
SearchEntries == {k \in DOMAIN cache : k[1] = "search"}
Results(k) == Cached(k).body.v.data

C26_TotalMatchesPage ==
  \A k \in SearchEntries :
    LET data == Results(k)
    IN (data.pagination.page = 1 /\ Len(data.properties) < data.pagination.limit) =>
         data.pagination.total = Len(data.properties)

(***************************************************************************)
(* C28.  (as claimed) Searches with the same parameters that run           *)
(* concurrently, each having missed the cache, with no listing written     *)
(* meanwhile, all store the same value under the same key: the results of  *)
(* two of them that are about to be stored are equal, and equal to the     *)
(* entry another of them has stored already.                               *)
(***************************************************************************)
Storing(r) == r.kind = "searchProperties" /\ r.pc = "set"

C28_SameValueFromEveryWriter ==
  \A i \in 1..Len(inflight) :
    Storing(inflight[i]) =>
      LET key == KEY_SEARCH(Query_stringify(inflight[i].query))
      IN /\ key \in DOMAIN cache => Cached(key).body = SearchResult(inflight[i])
         /\ \A j \in 1..Len(inflight) :
              (Storing(inflight[j]) /\ inflight[j].query = inflight[i].query)
                => SearchResult(inflight[j]) = SearchResult(inflight[i])

\* the searches agree on the listings of the page, whatever their order
C28_SameListings ==
  \A i \in 1..Len(inflight) :
    Storing(inflight[i]) =>
      LET key == KEY_SEARCH(Query_stringify(inflight[i].query))
      IN key \in DOMAIN cache =>
           /\ Elements(Results(key).properties) = Elements(inflight[i].found)
           /\ Results(key).pagination = SearchResult(inflight[i]).v.data.pagination
           /\ Results(key).filterOptions = inflight[i].opts

====
